---- MODULE Spec2Model ----
(***************************************************************************)
(* Verification model of the git-merge-orchestrator test harness:          *)
(*   test-scripts/create_test_repo.py   (TestRepoCreator)                  *)
(*   test-scripts/setup_scenarios.py    (ScenarioSetup)                    *)
(*   test-scripts/benchmark.py          (PerformanceBenchmark)             *)
(*   test-scripts/verify_results.py     (TestResultVerifier)               *)
(*                                                                         *)
(* The version-control client is modelled by what the harness uses of it:  *)
(* init, identity configuration, add+commit, branch creation and checkout, *)
(* each with the conditions under which the client exits non-zero.         *)
(***************************************************************************)
EXTENDS Integers, Sequences, FiniteSets, TLC

VARIABLES
    repo,        \* the repository directory test-repos/<repo_name>
    call,        \* arguments of the create_repo call in progress
    todo,        \* statements of the call still to be executed
    after,       \* statements the caller runs once create_repo has returned
    pc,          \* "idle"; "running" (in create_repo); "returned" (create_repo
                 \* returned repo_path), "declined" (it returned None),
                 \* "raised"; "setup", "done" (the scenario's own statements)
    gitRuns,     \* number of version-control commands issued by the call
    gitFailed,   \* some version-control command of the call exited non-zero
    carriedOn,   \* a statement was executed after a command had failed
    scenarioInfo,\* scenario descriptor files written by ScenarioSetup
    bench,       \* state of the benchmark executor
    verifier,    \* state of the result verifier and the directories it reads
    cleanup,     \* state of the cleanup tool and the directories it clears
    tester       \* state of the integration tester

vars == <<repo, call, todo, after, pc, gitRuns, gitFailed, carriedOn,
          scenarioInfo, bench, verifier, cleanup, tester>>

synthVars == <<repo, call, todo, after, pc, gitRuns, gitFailed, carriedOn,
               scenarioInfo>>

----------------------------------------------------------------------------
(* Maps with a growing domain (file trees, branch tables).                 *)

EmptyMap == [x \in {} |-> ""]

Put(m, k, v) == (k :> v) @@ m

Range(s) == {s[i] : i \in DOMAIN s}

----------------------------------------------------------------------------
(* Names.  Python's startswith/split work on characters; a branch name is  *)
(* kept as its sequence of tokens, the separators "-" and "/" included, so *)
(* that prefix tests and splits are computed and not assumed.              *)

RECURSIVE Join(_)
Join(toks) == IF toks = <<>> THEN "" ELSE Head(toks) \o Join(Tail(toks))

\* branch.startswith(prefix + sep)
StartsWith(toks, prefix, sep) ==
    /\ Len(toks) >= 2
    /\ toks[1] = prefix
    /\ toks[2] = sep

\* branch.split(sep)[-1], as tokens
RECURSIVE AfterLast(_, _)
AfterLast(toks, sep) ==
    IF \E i \in DOMAIN toks : toks[i] = sep
    THEN AfterLast(Tail(toks), sep)
    ELSE toks

\* branch.split(sep)[0], as tokens
RECURSIVE BeforeFirst(_, _)
BeforeFirst(toks, sep) ==
    IF toks = <<>> \/ Head(toks) = sep
    THEN <<>>
    ELSE <<Head(toks)>> \o BeforeFirst(Tail(toks), sep)

\* s.replace(old, new), on tokens
Replace(toks, old, new) ==
    [i \in DOMAIN toks |-> IF toks[i] = old THEN new ELSE toks[i]]

\* f"{i:03d}"
Pad3(i) ==
    IF i < 10 THEN "00" \o ToString(i)
    ELSE IF i < 100 THEN "0" \o ToString(i)
    ELSE ToString(i)

----------------------------------------------------------------------------
(* The repository directory and the version-control client.               *)
(*   exists : the directory exists                                         *)
(*   git    : it holds an initialised repository                           *)
(*   head   : the branch HEAD names (unborn until its first commit)        *)
(*   refs   : branch name -> [tree, log]; log is the branch's history,     *)
(*            oldest first, each entry the id, author and message of a     *)
(*            commit; made counts the commits created, and numbers them    *)
(*   wt     : working tree, path -> content                                *)
(*   user   : configured user.name ("" when unset); user.email is derived  *)
(*            from it by the harness and is never read back                *)
(*   work   : the tool's transient directory .merge_work exists            *)
(*   client : the `git` executable can be run (it is installed and on      *)
(*            PATH); a property of the machine, recorded with the          *)
(*            directory so that the client's operations stay functions of  *)
(*            one argument                                                 *)

DefaultUser == "Test User"
Trunk == "master"

NoRepo ==
    [exists |-> FALSE, git |-> FALSE, head |-> "", refs |-> EmptyMap,
     wt |-> EmptyMap, user |-> "", made |-> 0, work |-> FALSE,
     client |-> TRUE]

\* A repository left by an earlier run, present before the call.
OldRepo ==
    [exists |-> TRUE, git |-> TRUE, head |-> Trunk,
     refs |-> Put(EmptyMap, Trunk,
                  [tree |-> Put(EmptyMap, "old.txt", "old"),
                   log |-> <<[id |-> 1, author |-> DefaultUser,
                              message |-> "old"]>>]),
     wt |-> Put(EmptyMap, "old.txt", "old"),
     user |-> DefaultUser, made |-> 1, work |-> FALSE, client |-> TRUE]

Born(r) == r.head \in DOMAIN r.refs

HeadTree(r) == IF Born(r) THEN r.refs[r.head].tree ELSE EmptyMap

\* paths whose working-tree content differs from the HEAD commit
Dirty(r) ==
    {p \in DOMAIN r.wt : p \notin DOMAIN HeadTree(r) \/ HeadTree(r)[p] # r.wt[p]}

\* Every client operation yields the repository afterwards and its exit
\* status (ok = exit 0).
Res(r, ok) == [repo |-> r, ok |-> ok]

\* git init
GitInit(r) ==
    IF ~r.exists \/ ~r.client THEN Res(r, FALSE)
    ELSE IF r.git THEN Res(r, TRUE)
    ELSE Res([r EXCEPT !.git = TRUE, !.head = Trunk, !.refs = EmptyMap,
                       !.user = "", !.made = 0], TRUE)

\* git config user.name N  (and user.email, derived from N)
GitConfig(r, name) ==
    IF ~(r.exists /\ r.git) THEN Res(r, FALSE)
    ELSE Res([r EXCEPT !.user = name], TRUE)

\* git add . ; git commit -m message
GitCommit(r, message) ==
    IF ~(r.exists /\ r.git) THEN Res(r, FALSE)
    ELSE IF r.user = "" \/ message = "" THEN Res(r, FALSE)
    ELSE IF r.wt = HeadTree(r) THEN Res(r, FALSE)      \* nothing to commit
    ELSE LET entry == [id |-> r.made + 1, author |-> r.user,
                       message |-> message]
             log == IF Born(r) THEN r.refs[r.head].log ELSE <<>>
         IN Res([r EXCEPT !.made = r.made + 1,
                          !.refs = Put(r.refs, r.head,
                                       [tree |-> r.wt,
                                        log |-> Append(log, entry)])], TRUE)

\* git checkout -b name
GitCheckoutNew(r, name) ==
    IF ~(r.exists /\ r.git) THEN Res(r, FALSE)
    ELSE IF name \in DOMAIN r.refs THEN Res(r, FALSE)   \* already exists
    ELSE IF ~Born(r) THEN Res([r EXCEPT !.head = name], TRUE)
    ELSE Res([r EXCEPT !.head = name,
                       !.refs = Put(r.refs, name, r.refs[r.head])], TRUE)

\* git checkout name
GitCheckout(r, name) ==
    IF ~(r.exists /\ r.git) THEN Res(r, FALSE)
    ELSE IF name \notin DOMAIN r.refs THEN Res(r, FALSE)  \* pathspec unknown
    ELSE LET from == HeadTree(r)
             to == r.refs[name].tree
             dirty == Dirty(r)
             same(p) == \/ p \notin DOMAIN from /\ p \notin DOMAIN to
                        \/ /\ p \in DOMAIN from /\ p \in DOMAIN to
                           /\ from[p] = to[p]
         IN IF \E p \in dirty : ~same(p)
            THEN Res(r, FALSE)           \* local changes would be overwritten
            ELSE Res([r EXCEPT !.head = name,
                               !.wt = [p \in (DOMAIN to) \cup dirty |->
                                         IF p \in dirty THEN r.wt[p] ELSE to[p]]],
                     TRUE)

----------------------------------------------------------------------------
(* Statements.  Neither module ever reads the value _run_git_command       *)
(* returns, so the statements a synthesis executes are fixed by its        *)
(* arguments and its random draws; each method below is the sequence of    *)
(* statements it executes, in order.                                       *)

StFile(path, content) == [op |-> "file", a |-> path, b |-> content]
StBugfix(path, desc) == [op |-> "bugfix", a |-> path, b |-> desc]
StCommit(message, author) == [op |-> "commit", a |-> message, b |-> author]
StCommitKeep(message, author) == [op |-> "commit_keep", a |-> message, b |-> author]
StCheckoutNew(name) == [op |-> "checkout_b", a |-> name, b |-> ""]
StCheckout(name) == [op |-> "checkout", a |-> name, b |-> ""]
StInit == [op |-> "init", a |-> "", b |-> ""]
StConfig == [op |-> "config", a |-> "", b |-> ""]
StRaise(exc) == [op |-> "raise", a |-> exc, b |-> ""]
StSaveInfo(name) == [op |-> "save_info", a |-> name, b |-> ""]

\* What a statement did: the repository afterwards, the number of
\* version-control commands it issued, and whether all of them exited 0.
Out(r, runs, ok) == [repo |-> r, runs |-> runs, ok |-> ok]

\* TestRepoCreator._run_git_command: the failure is printed and swallowed.
RunGit(res) == Out(res.repo, 1, res.ok)

\* TestRepoCreator._setup_git_config
SetupGitConfig(r) ==
    LET n == GitConfig(r, DefaultUser)          \* user.name
        e == GitConfig(n.repo, DefaultUser)     \* user.email
    IN Out(e.repo, 2, n.ok /\ e.ok)

\* TestRepoCreator._create_file
CreateFile(r, path, content) ==
    [r EXCEPT !.wt = Put(r.wt, path, content)]

\* _commit_changes with the arguments of the identity override mixed up: the
\* commit message is configured as user.name.
CommitChangesSwapped(r, message, author) ==
    LET add == IF r.exists /\ r.git THEN Res(r, TRUE) ELSE Res(r, FALSE)
        asAuthor == IF author # ""
                    THEN LET n == GitConfig(add.repo, message)
                             e == GitConfig(n.repo, message)
                         IN Out(e.repo, 2, n.ok /\ e.ok)
                    ELSE Out(add.repo, 0, TRUE)
        commit == GitCommit(asAuthor.repo, message)
        restored == IF author # ""
                    THEN SetupGitConfig(commit.repo)
                    ELSE Out(commit.repo, 0, TRUE)
    IN Out(restored.repo,
           1 + asAuthor.runs + 1 + restored.runs,
           add.ok /\ asAuthor.ok /\ commit.ok /\ restored.ok)

\* TestRepoCreator._commit_changes
CommitChanges(r, message, author) ==
    LET add == IF r.exists /\ r.git THEN Res(r, TRUE) ELSE Res(r, FALSE)
        asAuthor == IF author # ""
                    THEN LET n == GitConfig(add.repo, author)
                             e == GitConfig(n.repo, author)
                         IN Out(e.repo, 2, n.ok /\ e.ok)
                    ELSE Out(add.repo, 0, TRUE)
        commit == GitCommit(asAuthor.repo, message)
        restored == IF author # ""
                    THEN SetupGitConfig(commit.repo)
                    ELSE Out(commit.repo, 0, TRUE)
    IN Out(restored.repo,
           1 + asAuthor.runs + 1 + restored.runs,
           add.ok /\ asAuthor.ok /\ commit.ok /\ restored.ok)

\* ScenarioSetup._commit_changes
SetupCommitChanges(r, message, author) ==
    LET add == IF r.exists /\ r.git THEN Res(r, TRUE) ELSE Res(r, FALSE)
        asAuthor == IF author # ""
                    THEN LET n == GitConfig(add.repo, author)
                             e == GitConfig(n.repo, author)
                         IN Out(e.repo, 2, n.ok /\ e.ok)
                    ELSE Out(add.repo, 0, TRUE)
        commit == GitCommit(asAuthor.repo, message)
    IN Out(commit.repo, 1 + asAuthor.runs + 1,
           add.ok /\ asAuthor.ok /\ commit.ok)

\* TestRepoCreator._add_random_bugfix, lines 482-490: the file is read back
\* from the working tree and a marker line is put in front of it.
FixedContent(r, path, desc) ==
    "# Fixed: " \o desc \o "|" \o
        (IF path \in DOMAIN r.wt THEN r.wt[path] ELSE "# Fixed file")

\* One statement.
Exec(r, s) ==
    CASE s.op = "file" -> Out(CreateFile(r, s.a, s.b), 0, TRUE)
      [] s.op = "bugfix" ->
            Out(CreateFile(r, s.a, FixedContent(r, s.a, s.b)), 0, TRUE)
      [] s.op = "commit" -> CommitChanges(r, s.a, s.b)
      [] s.op = "commit_keep" -> SetupCommitChanges(r, s.a, s.b)
      [] s.op = "checkout_b" -> RunGit(GitCheckoutNew(r, s.a))
      [] s.op = "checkout" -> RunGit(GitCheckout(r, s.a))
      [] s.op = "init" -> RunGit(GitInit(r))
      [] s.op = "config" -> SetupGitConfig(r)
      [] OTHER -> Out(r, 0, TRUE)

----------------------------------------------------------------------------
(* Keyword arguments.  kwargs.get(key, default): each of the three keys is *)
(* either given with a value or missing.                                   *)

Given(v) == [given |-> TRUE, v |-> v]
Missing == [given |-> FALSE, v |-> <<>>]
MissingCount == [given |-> FALSE, v |-> 0]
Get(arg, default) == IF arg.given THEN arg.v ELSE default

\* The statements of a loop: the concatenation of its iterations' blocks.
RECURSIVE Flatten(_)
Flatten(blocks) ==
    IF blocks = <<>> THEN <<>>
    ELSE IF Len(blocks) = 1 THEN blocks[1]
    ELSE LET half == Len(blocks) \div 2
         IN Flatten(SubSeq(blocks, 1, half))
            \o Flatten(SubSeq(blocks, half + 1, Len(blocks)))

\* random.choice(seq) / random.randint: the k-th draw of the run whose
\* generator was seeded with `seed`.
Choice(seq, seed, k) == seq[((seed + k * (seed + 1)) % Len(seq)) + 1]

\* contributors[0] whatever the position
NthFirst(seq, i) == seq[1]

\* contributors[i % len(contributors)], i counted from 0
Nth(seq, i) == seq[(i % Len(seq)) + 1]

SimpleContributors == <<"Alice", "Bob">>
ComplexContributors == <<"Alice", "Bob", "Charlie", "David">>
MultiBranchContributors == <<"Alice", "Bob", "Charlie", "David", "Eve">>
LargeScaleContributors == <<"Dev1", "Dev2", "Dev3", "Dev4", "Dev5", "Dev6">>
ComplexBranches ==
    << <<"develop">>, <<"feature", "-", "1">>, <<"feature", "-", "2">>,
       <<"hotfix", "-", "1">> >>
ComplexFiles == 50
LargeScaleFiles == 200
AssumedBaseFiles == 20
BatchSize == 10
HistoryCommits == 50
HistoryPool == 20

\* _create_simple_repo without `git checkout -b feature`: the later commits
\* land on the trunk.
CreateSimpleRepoNoBranch(kw) ==
    LET contributors == Get(kw.contributors, SimpleContributors)
        second == IF Len(contributors) > 1 THEN contributors[2]
                  ELSE contributors[1]
    IN << StFile("README.md", "simple readme"),
          StFile("main.py", "main v1"),
          StFile("config.json", "config v1"),
          StCommit("Initial commit", contributors[1]),
          StFile("utils.py", "utils"),
          StFile("main.py", "main v2"),
          StCommit("Add utility functions", second),
          StFile("tests.py", "tests"),
          StCommit("Add basic tests", second),
          StCheckout(Trunk) >>

\* TestRepoCreator._create_simple_repo
CreateSimpleRepo(kw) ==
    LET contributors == Get(kw.contributors, SimpleContributors)
        second == IF Len(contributors) > 1 THEN contributors[2]
                  ELSE contributors[1]
    IN << StFile("README.md", "simple readme"),
          StFile("main.py", "main v1"),
          StFile("config.json", "config v1"),
          StCommit("Initial commit", contributors[1]),
          StCheckoutNew("feature"),
          StFile("utils.py", "utils"),
          StFile("main.py", "main v2"),
          StCommit("Add utility functions", second),
          StFile("tests.py", "tests"),
          StCommit("Add basic tests", second),
          StCheckout(Trunk) >>

\* TestRepoCreator._add_feature_changes
AddFeatureChanges(branch, author) ==
    LET feature_num == Join(AfterLast(branch, "-"))
    IN << StFile("src/features/feature_" \o feature_num \o ".py",
                 "class Feature" \o feature_num),
          StFile("src/core/main.py", "# Updated for " \o Join(branch)),
          StCommit("Add " \o Join(branch) \o " functionality", author),
          StFile("tests/unit/test_feature_" \o feature_num \o ".py",
                 "class TestFeature" \o feature_num),
          StCommit("Add tests for " \o Join(branch), author) >>

\* TestRepoCreator._add_hotfix_changes
AddHotfixChanges(branch, author) ==
    << StFile("src/utils/validators.py", "validate_email hotfix"),
       StCommit("Hotfix: Improve email validation", author) >>

\* TestRepoCreator._add_development_changes
AddDevelopmentChanges(author) ==
    << StFile("scripts/dev_setup.py", "dev setup"),
       StFile("config/development.json", "development config"),
       StCommit("Add development configuration", author) >>

FileTypes == <<"py", "js", "css", "html", "json", "md">>
ScratchDirs == <<"src/generated", "data", "docs/generated">>

\* TestRepoCreator._add_additional_files
AddAdditionalFiles(count, contributors, seed) ==
    LET block(i) ==
            LET file_type == Choice(FileTypes, seed, 2 * i)
                directory == Choice(ScratchDirs, seed, 2 * i + 1)
                file_name == "generated_file_" \o Pad3(i) \o "." \o file_type
            IN << StFile(directory \o "/" \o file_name, file_type \o " file") >>
               \o (IF (i + 1) % BatchSize = 0
                   THEN << StCommit("Add generated files batch "
                                       \o ToString((i \div BatchSize) + 1),
                                    Choice(contributors, seed, i \div BatchSize)) >>
                   ELSE <<>>)
    IN IF count <= 0 THEN <<>>
       ELSE Flatten([k \in 1..count |-> block(k - 1)])

CoreFiles ==
    << "src/core/__init__.py", "src/core/main.py", "src/core/database.py",
       "src/utils/__init__.py", "src/utils/helpers.py",
       "src/utils/validators.py", "src/ui/__init__.py",
       "src/ui/components.py", "src/api/__init__.py", "src/api/routes.py" >>

\* The loop body of _create_complex_repo without the return to the trunk.
ComplexBranchBlockStay(i, branch, contributors) ==
    << StCheckoutNew(Join(branch)) >>
    \o (IF StartsWith(branch, "feature", "-")
        THEN AddFeatureChanges(branch, Nth(contributors, i))
        ELSE IF StartsWith(branch, "hotfix", "-")
        THEN AddHotfixChanges(branch, Nth(contributors, i))
        ELSE IF Join(branch) = "develop"
        THEN AddDevelopmentChanges(Nth(contributors, i))
        ELSE <<>>)

\* The loop body of _create_complex_repo, lines 279-297; i counted from 0.
ComplexBranchBlock(i, branch, contributors) ==
    << StCheckoutNew(Join(branch)) >>
    \o (IF StartsWith(branch, "feature", "-")
        THEN AddFeatureChanges(branch, Nth(contributors, i))
        ELSE IF StartsWith(branch, "hotfix", "-")
        THEN AddHotfixChanges(branch, Nth(contributors, i))
        ELSE IF Join(branch) = "develop"
        THEN AddDevelopmentChanges(Nth(contributors, i))
        ELSE <<>>)
    \o << StCheckout(Trunk) >>

\* TestRepoCreator._create_complex_repo
CreateComplexRepo(kw, seed) ==
    LET contributors == Get(kw.contributors, ComplexContributors)
        files_count == Get(kw.files, ComplexFiles)
        branches == Get(kw.branches, ComplexBranches)
    IN << StFile("README.md", "complex readme") >>
       \o [k \in DOMAIN CoreFiles |-> StFile(CoreFiles[k], "core v1")]
       \o << StCommit("Initial project structure", contributors[1]) >>
       \o Flatten([k \in DOMAIN branches |->
                     ComplexBranchBlock(k - 1, branches[k], contributors)])
       \o AddAdditionalFiles(files_count - AssumedBaseFiles, contributors, seed)

AdditionalBranches ==
    << <<"feature", "/", "user", "-", "auth">>,
       <<"feature", "/", "api", "-", "v2">>,
       <<"feature", "/", "frontend", "-", "redesign">>,
       <<"bugfix", "/", "login", "-", "issue">>,
       <<"bugfix", "/", "performance">>,
       <<"refactor", "/", "database">>,
       <<"experimental", "/", "new", "-", "algo">>,
       <<"release", "/", "v2.0">> >>

FilesToFix == <<"src/core/main.py", "src/utils/helpers.py", "src/api/routes.py">>

\* TestRepoCreator._add_random_feature
AddRandomFeature(branch, author) ==
    LET feature_name == Join(Replace(AfterLast(branch, "/"), "-", "_"))
    IN << StFile("src/features/" \o feature_name \o ".py",
                 "class " \o feature_name),
          StCommit("Implement " \o feature_name \o " feature", author) >>

\* TestRepoCreator._add_random_bugfix
AddRandomBugfix(branch, author, seed, k) ==
    LET fix_description == Join(Replace(AfterLast(branch, "/"), "-", " "))
        file_to_fix == Choice(FilesToFix, seed, k)
    IN << StBugfix(file_to_fix, fix_description),
          StCommit("Fix " \o fix_description, author) >>

\* The loop body of _create_multi_branch_repo without the return to the
\* trunk of line 454.
MultiBranchBlockStay(k, branch, contributors, seed) ==
    LET branch_type == Join(BeforeFirst(branch, "/"))
    IN << StCheckoutNew(Join(branch)) >>
       \o (IF branch_type = "feature"
           THEN AddRandomFeature(branch, Choice(contributors, seed, k))
           ELSE IF branch_type = "bugfix"
           THEN AddRandomBugfix(branch, Choice(contributors, seed, k), seed, k)
           ELSE <<>>)

\* The loop body of _create_multi_branch_repo, lines 444-454.
MultiBranchBlock(k, branch, contributors, seed) ==
    LET branch_type == Join(BeforeFirst(branch, "/"))
    IN << StCheckoutNew(Join(branch)) >>
       \o (IF branch_type = "feature"
           THEN AddRandomFeature(branch, Choice(contributors, seed, k))
           ELSE IF branch_type = "bugfix"
           THEN AddRandomBugfix(branch, Choice(contributors, seed, k), seed, k)
           ELSE <<>>)
       \o << StCheckout(Trunk) >>

\* TestRepoCreator._create_multi_branch_repo
CreateMultiBranchRepo(kw, seed) ==
    LET contributors == Get(kw.contributors, MultiBranchContributors)
    IN CreateComplexRepo(kw, seed)
       \o Flatten([k \in DOMAIN AdditionalBranches |->
                     MultiBranchBlock(k, AdditionalBranches[k], contributors, seed)])

\* TestRepoCreator._add_commit_history
AddCommitHistory(contributors, commit_count, seed) ==
    LET block(i) ==
            LET file_num == ((seed + i * (seed + 1)) % HistoryPool) + 1
            IN << StFile("src/history/history_file_" \o Pad3(file_num) \o ".py",
                         "Modified at commit " \o ToString(i + 1)),
                  StCommit("Update history file " \o ToString(file_num)
                              \o " (commit " \o ToString(i + 1) \o ")",
                           Choice(contributors, seed, i)) >>
    IN IF commit_count <= 0 THEN <<>>
       ELSE Flatten([k \in 1..commit_count |-> block(k - 1)])

\* TestRepoCreator._create_large_scale_repo
CreateLargeScaleRepo(kw, seed) ==
    LET files_count == Get(kw.files, LargeScaleFiles)
        contributors == Get(kw.contributors, LargeScaleContributors)
        filtered == [contributors |-> Given(contributors),
                     files |-> Given(files_count),
                     branches |-> kw.branches]
    IN CreateComplexRepo(filtered, seed)
       \o AddCommitHistory(contributors, HistoryCommits, seed)

\* TestRepoCreator.create_repo, lines 49-66: what follows the directory's
\* creation.  An unrecognised type is only found out after git init and the
\* identity configuration have run.
CreateRepoBody(repo_type, kw, seed) ==
    << StInit, StConfig >>
    \o (IF repo_type = "simple" THEN CreateSimpleRepo(kw)
        ELSE IF repo_type = "complex" THEN CreateComplexRepo(kw, seed)
        ELSE IF repo_type = "multi-branch" THEN CreateMultiBranchRepo(kw, seed)
        ELSE IF repo_type = "large-scale" THEN CreateLargeScaleRepo(kw, seed)
        ELSE << StRaise("ValueError") >>)

----------------------------------------------------------------------------
(* ScenarioSetup: each scenario calls create_repo with fixed arguments and *)
(* then runs statements of its own, committing with                        *)
(* ScenarioSetup._commit_changes.                                          *)

ScenarioNames ==
    { "merge-conflicts", "file-level-processing", "load-balancing",
      "large-scale-performance", "multi-contributor",
      "complex-directory-structure", "branch-management", "ignore-rules" }

Args(repo_type, contributors, files, branches) ==
    [type |-> repo_type,
     kw |-> [contributors |-> contributors, files |-> files,
             branches |-> branches]]

\* The create_repo call of each _setup_*_scenario.
ScenarioArgs(name) ==
    CASE name = "merge-conflicts" ->
            Args("complex", Given(<<"Alice", "Bob", "Charlie">>), MissingCount,
                 Given(<< <<"feature", "-", "1">>, <<"feature", "-", "2">> >>))
      [] name = "file-level-processing" ->
            Args("complex", Given(<<"Dev1", "Dev2", "Dev3", "Dev4">>),
                 Given(30), Missing)
      [] name = "load-balancing" ->
            Args("large-scale",
                 Given(<<"TeamLead", "Senior1", "Senior2", "Junior1",
                         "Junior2", "Intern1">>),
                 Given(100), Missing)
      [] name = "large-scale-performance" ->
            Args("large-scale",
                 Given(<<"Perf1", "Perf2", "Perf3", "Perf4", "Perf5">>),
                 Given(500), Missing)
      [] name = "multi-contributor" ->
            Args("complex",
                 Given(<<"Frontend-Dev", "Backend-Dev", "DevOps-Engineer",
                         "QA-Tester", "Product-Manager", "UI-Designer",
                         "Data-Scientist", "Security-Expert">>),
                 Given(80), Missing)
      [] name = "complex-directory-structure" ->
            Args("complex", Given(<<"Architect", "Developer1", "Developer2">>),
                 Given(60), Missing)
      [] name = "branch-management" ->
            Args("multi-branch",
                 Given(<<"Release-Manager", "Feature-Dev1", "Feature-Dev2",
                         "Hotfix-Dev">>),
                 MissingCount,
                 Given(<< <<"develop">>, <<"release", "/", "v1.0">>,
                          <<"hotfix", "/", "urgent", "-", "fix">> >>))
      [] OTHER ->
            Args("simple", Given(<<"Developer", "Tester">>), MissingCount,
                 Missing)

\* ScenarioSetup._setup_merge_conflicts_scenario, lines 73-116
SetupMergeConflicts ==
    << StCheckout("feature-1"),
       StFile("src/core/main.py", "version 2.0-feature1"),
       StCommitKeep("Add feature-1 changes", "Alice"),
       StCheckout("feature-2"),
       StFile("src/core/main.py", "version 2.0-feature2"),
       StCommitKeep("Add feature-2 changes", "Bob"),
       StCheckout(Trunk),
       StSaveInfo("merge-conflicts-test") >>

FileChanges ==
    << <<"src/models/user.py", "Dev1">>, <<"src/models/product.py", "Dev2">>,
       <<"src/services/auth.py", "Dev3">>, <<"src/services/payment.py", "Dev4">>,
       <<"src/utils/encryption.py", "Dev1">>, <<"config/database.json", "Dev2">>,
       <<"docs/api.md", "Dev3">> >>

\* ScenarioSetup._setup_file_level_scenario, lines 130-156
SetupFileLevel ==
    << StCheckoutNew("file-level-feature") >>
    \o Flatten([k \in DOMAIN FileChanges |->
                  << StFile(FileChanges[k][1], "file-level change"),
                     StCommitKeep("Update " \o FileChanges[k][1],
                                  FileChanges[k][2]) >>])
    \o << StCheckout(Trunk), StSaveInfo("file-level-test") >>

HeavyContributors == <<"TeamLead", "Senior1">>
LightContributors == <<"Junior1", "Junior2", "Intern1">>
HeavyFiles == 20
LightFiles == 5

\* ScenarioSetup._setup_load_balancing_scenario, lines 170-201
SetupLoadBalancing ==
    << StCheckoutNew("load-test-feature") >>
    \o Flatten([k \in 1..HeavyFiles |->
                  << StFile("src/heavy_work/file_" \o Pad3(k - 1) \o ".py",
                            "Heavy work file " \o ToString(k - 1)),
                     StCommitKeep("Heavy work: file " \o ToString(k - 1),
                                  Nth(HeavyContributors, k - 1)) >>])
    \o Flatten([k \in 1..LightFiles |->
                  << StFile("src/light_work/file_" \o Pad3(k - 1) \o ".py",
                            "Light work file " \o ToString(k - 1)),
                     StCommitKeep("Light work: file " \o ToString(k - 1),
                                  Nth(LightContributors, k - 1)) >>])
    \o << StCheckout(Trunk), StSaveInfo("load-balancing-test") >>

\* ScenarioSetup._setup_performance_scenario, lines 215-221
SetupPerformance == << StSaveInfo("performance-test") >>

SpecializationFiles ==
    << <<"frontend/components/", "Frontend-Dev", <<"button.js", "modal.js", "form.js">> >>,
       <<"backend/api/", "Backend-Dev", <<"users.py", "products.py", "orders.py">> >>,
       <<"infrastructure/", "DevOps-Engineer", <<"docker-compose.yml", "kubernetes.yaml">> >>,
       <<"tests/", "QA-Tester", <<"integration_tests.py", "e2e_tests.py">> >>,
       <<"docs/requirements/", "Product-Manager", <<"features.md", "roadmap.md">> >>,
       <<"design/", "UI-Designer", <<"mockups.md", "style-guide.css">> >>,
       <<"analytics/", "Data-Scientist", <<"metrics.py", "reports.py">> >>,
       <<"security/", "Security-Expert", <<"audit.py", "permissions.py">> >> >>

\* ScenarioSetup._setup_multi_contributor_scenario, lines 241-271
SetupMultiContributor ==
    << StCheckoutNew("multi-team-feature") >>
    \o Flatten([k \in DOMAIN SpecializationFiles |->
                  LET directory == SpecializationFiles[k][1]
                      specialist == SpecializationFiles[k][2]
                      files == SpecializationFiles[k][3]
                  IN [j \in DOMAIN files |->
                        StFile(directory \o files[j], specialist \o " work")]
                     \o << StCommitKeep("Add " \o specialist \o " components",
                                        specialist) >>])
    \o << StCheckout(Trunk), StSaveInfo("multi-contributor-test") >>

DeepStructure ==
    << "src/main/java/com/company/project/core/",
       "src/main/java/com/company/project/services/impl/",
       "src/main/java/com/company/project/controllers/api/v1/",
       "src/main/resources/config/environments/production/",
       "src/test/java/com/company/project/integration/",
       "docs/architecture/diagrams/sequence/",
       "docs/api/v1/endpoints/",
       "scripts/deployment/environments/staging/" >>

DeepFiles == 3

\* ScenarioSetup._setup_complex_directory_scenario, lines 285-317.
\* hash(directory) % 3 differs from one interpreter run to the next: the
\* author is a draw of the run.
SetupComplexDirectory(seed) ==
    << StCheckoutNew("complex-structure") >>
    \o Flatten([k \in DOMAIN DeepStructure |->
                  [j \in 1..DeepFiles |->
                     StFile(DeepStructure[k] \o "file_" \o ToString(j - 1) \o ".txt",
                            "Deep directory file " \o ToString(j - 1))]
                  \o << StCommitKeep("Add files to " \o DeepStructure[k],
                                     Choice(<<"Architect", "Developer1", "Developer2">>,
                                            seed, k)) >>])
    \o << StCheckout(Trunk), StSaveInfo("complex-directory-test") >>

ComplexBranchesOfSetup ==
    << << <<"feature", "/", "user", "-", "management">>, "Feature-Dev1" >>,
       << <<"feature", "/", "payment", "-", "integration">>, "Feature-Dev2" >>,
       << <<"bugfix", "/", "login", "-", "issue">>, "Hotfix-Dev" >>,
       << <<"refactor", "/", "database", "-", "layer">>, "Feature-Dev1" >>,
       << <<"experimental", "/", "ml", "-", "integration">>, "Feature-Dev2" >> >>

\* ScenarioSetup._setup_branch_management_scenario, lines 331-368
SetupBranchManagement ==
    Flatten([k \in DOMAIN ComplexBranchesOfSetup |->
               LET branch == ComplexBranchesOfSetup[k][1]
                   developer == ComplexBranchesOfSetup[k][2]
                   branch_type == Join(BeforeFirst(branch, "/"))
                   feature_name == Join(Replace(AfterLast(branch, "/"), "-", "_"))
               IN << StCheckoutNew(Join(branch)),
                     StFile("src/" \o branch_type \o "/" \o feature_name \o ".py",
                            "# " \o Join(branch) \o " implementation"),
                     StCommitKeep("Implement " \o feature_name, developer),
                     StCheckout(Trunk) >>])
    \o << StSaveInfo("branch-management-test") >>

FilesToCreate ==
    << "src/important.py", "src/cache.pyc", "logs/application.log",
       "temp/temp_data.tmp", ".vscode/settings.json",
       "node_modules/package/index.js", "build/output.exe", "docs/readme.md",
       ".DS_Store", "__pycache__/module.cpython-39.pyc" >>

\* ScenarioSetup._setup_ignore_rules_scenario, lines 381-426
SetupIgnoreRules ==
    << StCheckoutNew("ignore-test") >>
    \o [k \in DOMAIN FilesToCreate |-> StFile(FilesToCreate[k], "various")]
    \o << StCommitKeep("Add various file types including ignorable ones",
                       "Developer"),
          StFile(".merge_ignore", "ignore rules"),
          StCommitKeep("Add merge ignore rules", "Developer"),
          StCheckout(Trunk),
          StSaveInfo("ignore-rules-test") >>

\* What a scenario runs once create_repo has returned the repository.
ScenarioBody(name, seed) ==
    CASE name = "merge-conflicts" -> SetupMergeConflicts
      [] name = "file-level-processing" -> SetupFileLevel
      [] name = "load-balancing" -> SetupLoadBalancing
      [] name = "large-scale-performance" -> SetupPerformance
      [] name = "multi-contributor" -> SetupMultiContributor
      [] name = "complex-directory-structure" -> SetupComplexDirectory(seed)
      [] name = "branch-management" -> SetupBranchManagement
      [] OTHER -> SetupIgnoreRules

----------------------------------------------------------------------------
(* Inputs of the calls the model makes.                                    *)

MaxBranches == 2
MaxSeed == 1
MaxTopUp == 11

RepoTypes == {"simple", "complex", "multi-branch", "large-scale", "monorepo"}

ContributorLists == { <<"Alice">>, <<"Alice", "Bob">> }

BranchNames ==
    { <<"feature", "-", "1">>, <<"hotfix", "-", "1">>,
      <<"release", "/", "v1.0">>, <<"master">> }

BranchLists ==
    UNION { [1..n -> BranchNames] : n \in 0..MaxBranches }

FileCounts ==
    { 11, AssumedBaseFiles + 5,
      AssumedBaseFiles + MaxTopUp - 1, AssumedBaseFiles + MaxTopUp }

Seeds == 0..MaxSeed

Answers == {"y", "Y", "n"}

\* str.lower(), on the answers above
Lower(a) == IF a = "Y" THEN "y" ELSE a

Kwargs(cs, fs, bs) ==
    { [contributors |-> c, files |-> f, branches |-> b] :
        c \in cs, f \in fs, b \in bs }

AnyContributors == {Missing} \cup {Given(x) : x \in ContributorLists}
AnyFiles == {MissingCount} \cup {Given(x) : x \in FileCounts}
AnyBranches == {Missing} \cup {Given(x) : x \in BranchLists}

\* The keyword arguments a direct call passes.  simple and an unrecognised
\* type read `contributors` at most; multi-branch and large-scale run the
\* complex synthesis first and are called here with the file counts given.
KwargsFor(repo_type) ==
    IF repo_type = "complex"
    THEN Kwargs(AnyContributors, AnyFiles, AnyBranches)
    ELSE IF repo_type \in {"multi-branch", "large-scale"}
    THEN Kwargs(AnyContributors, {Given(x) : x \in FileCounts}, {Missing})
    ELSE Kwargs(AnyContributors, {MissingCount}, {Missing})

NoKwargs ==
    [contributors |-> Missing, files |-> MissingCount, branches |-> Missing]

NoCall ==
    [type |-> "", kw |-> NoKwargs, seed |-> 0, existed |-> FALSE,
     answer |-> "", caller |-> ""]

BenchIdle == [pc |-> "off"]

\* No TestResultVerifier has been constructed.
VerifierIdle == [pc |-> "off"]

\* No TestCleanupTool has been constructed.
CleanupIdle == [pc |-> "off"]

\* No IntegrationTester has been constructed.
TesterIdle == [pc |-> "off"]

----------------------------------------------------------------------------
(* TestRepoCreator.create_repo and the statements of a synthesis.          *)

Init ==
    /\ repo \in {NoRepo, OldRepo}
    /\ call = NoCall
    /\ todo = <<>>
    /\ after = <<>>
    /\ pc = "idle"
    /\ gitRuns = 0
    /\ gitFailed = FALSE
    /\ carriedOn = FALSE
    /\ scenarioInfo = {}
    /\ bench = BenchIdle
    /\ verifier = VerifierIdle
    /\ cleanup = CleanupIdle
    /\ tester = TesterIdle

\* create_repo deleting the existing repository before it reads the answer.
EnterDeleteFirst(repo_type, kw, seed, answer, caller, rest) ==
    /\ pc = "idle"
    /\ call' = [type |-> repo_type, kw |-> kw, seed |-> seed,
                existed |-> repo.exists,
                answer |-> IF repo.exists THEN answer ELSE "",
                caller |-> caller]
    /\ IF repo.exists /\ Lower(answer) # "y"
       THEN /\ pc' = "declined"
            /\ repo' = NoRepo
            /\ UNCHANGED <<todo, after>>
       ELSE /\ pc' = "running"
            /\ repo' = [NoRepo EXCEPT !.exists = TRUE]
            /\ todo' = CreateRepoBody(repo_type, kw, seed)
            /\ after' = rest
    /\ UNCHANGED <<gitRuns, gitFailed, carriedOn, scenarioInfo, bench,
                   verifier, cleanup, tester>>

\* create_repo, lines 29-47: the overwrite prompt, the deletion of an
\* existing repository, and the creation of the directory.
Enter(repo_type, kw, seed, answer, caller, rest) ==
    /\ pc = "idle"
    /\ call' = [type |-> repo_type, kw |-> kw, seed |-> seed,
                existed |-> repo.exists,
                answer |-> IF repo.exists THEN answer ELSE "",
                caller |-> caller]
    /\ IF repo.exists /\ Lower(answer) # "y"
       THEN /\ pc' = "declined"
            /\ UNCHANGED <<repo, todo, after>>
       ELSE /\ pc' = "running"
            /\ repo' = [NoRepo EXCEPT !.exists = TRUE]
            /\ todo' = CreateRepoBody(repo_type, kw, seed)
            /\ after' = rest
    /\ UNCHANGED <<gitRuns, gitFailed, carriedOn, scenarioInfo, bench,
                   verifier, cleanup, tester>>

CreateRepo ==
    /\ pc = "idle"
    /\ \E repo_type \in RepoTypes, seed \in Seeds, answer \in Answers :
        \E kw \in KwargsFor(repo_type) :
          Enter(repo_type, kw, seed, answer, "create_repo", <<>>)

Running == pc \in {"running", "setup"} /\ todo # <<>>

Advance(out) ==
    /\ repo' = out.repo
    /\ gitRuns' = gitRuns + out.runs
    /\ gitFailed' = (gitFailed \/ ~out.ok)
    /\ carriedOn' = (carriedOn \/ gitFailed)
    /\ todo' = Tail(todo)
    /\ UNCHANGED <<call, after, pc, scenarioInfo, bench,
                   verifier, cleanup, tester>>

\* _create_file (and the read-modify-write of _add_random_bugfix)
WriteFile ==
    /\ Running
    /\ Head(todo).op \in {"file", "bugfix"}
    /\ Advance(Exec(repo, Head(todo)))

\* git init, the identity configuration, git checkout [-b]
GitCommand ==
    /\ Running
    /\ Head(todo).op \in {"init", "config", "checkout_b", "checkout"}
    /\ Advance(Exec(repo, Head(todo)))

\* _commit_changes
Commit ==
    /\ Running
    /\ Head(todo).op \in {"commit", "commit_keep"}
    /\ Advance(Exec(repo, Head(todo)))

\* create_repo, line 63
RaiseError ==
    /\ Running
    /\ Head(todo).op = "raise"
    /\ pc' = "raised"
    /\ todo' = <<>>
    /\ after' = <<>>
    /\ carriedOn' = (carriedOn \/ gitFailed)
    /\ UNCHANGED <<repo, call, gitRuns, gitFailed, scenarioInfo, bench,
                   verifier, cleanup, tester>>

\* create_repo, lines 65-66: return repo_path
Return ==
    /\ pc = "running"
    /\ todo = <<>>
    /\ pc' = "returned"
    /\ UNCHANGED <<repo, call, todo, after, gitRuns, gitFailed, carriedOn,
                   scenarioInfo, bench,
                   verifier, cleanup, tester>>

\* ScenarioSetup.setup_scenario: the scenario's create_repo call
SetupScenario ==
    /\ pc = "idle"
    /\ \E name \in ScenarioNames, seed \in Seeds, answer \in Answers :
        Enter(ScenarioArgs(name).type, ScenarioArgs(name).kw, seed, answer,
              name, ScenarioBody(name, seed))

\* ScenarioSetup._setup_*_scenario: `if not repo_path: return` is passed and
\* the scenario's own statements run.
ContinueSetup ==
    /\ pc = "returned"
    /\ after # <<>>
    /\ pc' = "setup"
    /\ todo' = after
    /\ after' = <<>>
    /\ UNCHANGED <<repo, call, gitRuns, gitFailed, carriedOn, scenarioInfo,
                   bench,
                   verifier, cleanup, tester>>

\* ScenarioSetup._save_scenario_info
SaveScenarioInfo ==
    /\ Running
    /\ Head(todo).op = "save_info"
    /\ scenarioInfo' = scenarioInfo \cup {Head(todo).a}
    /\ todo' = Tail(todo)
    /\ carriedOn' = (carriedOn \/ gitFailed)
    /\ UNCHANGED <<repo, call, after, pc, gitRuns, gitFailed, bench,
                   verifier, cleanup, tester>>

\* the scenario's function returns
FinishSetup ==
    /\ pc = "setup"
    /\ todo = <<>>
    /\ pc' = "done"
    /\ UNCHANGED <<repo, call, todo, after, gitRuns, gitFailed, carriedOn,
                   scenarioInfo, bench,
                   verifier, cleanup, tester>>

Next ==
    \/ CreateRepo
    \/ SetupScenario
    \/ ContinueSetup
    \/ SaveScenarioInfo
    \/ FinishSetup
    \/ WriteFile
    \/ GitCommand
    \/ Commit
    \/ RaiseError
    \/ Return

Spec == Init /\ [][Next]_vars

----------------------------------------------------------------------------
(* PerformanceBenchmark (benchmark.py).                                    *)
(*                                                                         *)
(* The tool under test is a separate program: what one run of it does is   *)
(* an input of the model.  It exits (status 0 or not) after some duration, *)
(* or it is killed at the timeout, or it cannot be started at all; when it *)
(* ran it may have left its transient directory .merge_work behind.        *)
(* A Python dict is a record: `key in d` is membership in DOMAIN d.        *)

MaxScenarios == 2
MaxRuns == 2

TimeoutSeconds == 300

Modes == <<"file_level", "group_based">>

Durations == {2, 4}

Devs(n) == [i \in 1..n |-> "Dev" \o ToString(i)]

BenchScenarios == {"simple", "complex", "large-scale"}

\* _benchmark_scenario, lines 52-71: scenario_configs
ScenarioConfig(scenario) ==
    CASE scenario = "simple" ->
            [type |-> "simple",
             kw |-> [contributors |-> Given(Devs(2)), files |-> Given(20),
                     branches |-> Given(<< <<"feature">> >>)]]
      [] scenario = "complex" ->
            [type |-> "complex",
             kw |-> [contributors |-> Given(Devs(5)), files |-> Given(100),
                     branches |-> Given(<< <<"feature", "-", "1">>,
                                           <<"feature", "-", "2">> >>)]]
      [] OTHER ->
            [type |-> "large-scale",
             kw |-> [contributors |-> Given(Devs(10)), files |-> Given(500),
                     branches |-> Given(<< <<"feature", "-", "main">> >>)]]

\* The repository after the statements of `script`, run in order in the
\* directory r (which exists: create_repo has made it).
RECURSIVE RunAll(_, _)
RunAll(r, script) ==
    IF script = <<>> \/ ~r.exists THEN r
    ELSE IF Len(script) = 1 THEN Exec(r, script[1]).repo
    ELSE LET half == Len(script) \div 2
         IN RunAll(RunAll(r, SubSeq(script, 1, half)),
                   SubSeq(script, half + 1, Len(script)))

\* _create_benchmark_repo: the old repository is removed without a prompt and
\* create_repo synthesizes the scenario's repository.
CreateBenchmarkRepo(scenario, client, seed) ==
    RunAll([NoRepo EXCEPT !.exists = TRUE, !.client = client],
           CreateRepoBody(ScenarioConfig(scenario).type,
                          ScenarioConfig(scenario).kw, seed))

\* The repositories the scenarios synthesize, by scenario, client and seed.
BenchmarkRepos ==
    [scenario \in BenchScenarios, client \in BOOLEAN, seed \in Seeds |->
        CreateBenchmarkRepo(scenario, client, seed)]

\* `git branch -r` prints the remote-tracking branches.  No statement of a
\* synthesis adds a remote, so a repository made by create_repo has none.
RemoteBranches(r) == <<>>

\* _get_test_branches: when `git branch -r` exits 0 its lines are kept, the
\* empty ones, master and the HEAD pointer left out; when it cannot be run
\* or exits non-zero the default ["feature"] is returned.
GetTestBranches(r) ==
    IF r.exists /\ r.client /\ r.git
    THEN SelectSeq(RemoteBranches(r),
                   LAMBDA b : b # "" /\ b # "master")
    ELSE <<"feature">>

\* _collect_performance_metrics, lines 199-203.  The entries read from the
\* tool's plan file describe the tool's output and are left out.
CollectPerformanceMetrics(duration, returncode) ==
    [duration |-> duration, success |-> (returncode = 0)]

\* _run_single_benchmark, line 163
TimedOut == [timeout |-> TRUE, duration |-> TimeoutSeconds]

\* _run_single_benchmark, line 167
Errored == [error |-> "error"]

\* what mode_results[mode] is set to, and whether the tool left .merge_work
ToolRuns ==
    { [result |-> CollectPerformanceMetrics(d, rc), work |-> w] :
        d \in Durations, rc \in {0, 1}, w \in BOOLEAN }
    \cup { [result |-> TimedOut, work |-> w] : w \in BOOLEAN }
    \cup { [result |-> Errored, work |-> FALSE] }

\* _cleanup_work_dir
CleanupWorkDir(r) == [r EXCEPT !.work = FALSE]

RECURSIVE Sum(_)
Sum(seq) == IF seq = <<>> THEN 0 ELSE Head(seq) + Sum(Tail(seq))

Min(seq) == CHOOSE x \in Range(seq) : \A y \in Range(seq) : x <= y
Max(seq) == CHOOSE x \in Range(seq) : \A y \in Range(seq) : x >= y

\* A quotient of two integers, kept exact.
Ratio(n, d) == [num |-> n, den |-> d]

\* statistics.stdev dividing by n, the population deviation
StdevPopulation(seq) ==
    LET n == Len(seq)
        squares == [k \in DOMAIN seq |-> seq[k] * seq[k]]
    IN [root_of |-> Ratio(n * Sum(squares) - Sum(seq) * Sum(seq), n * n)]

\* statistics.stdev: the non-negative root of the sample variance
\*   sum((x - mean)^2) / (n - 1)  =  (n * sum(x^2) - sum(x)^2) / (n * (n - 1))
Stdev(seq) ==
    LET n == Len(seq)
        squares == [k \in DOMAIN seq |-> seq[k] * seq[k]]
    IN [root_of |-> Ratio(n * Sum(squares) - Sum(seq) * Sum(seq),
                          n * (n - 1))]

\* d.get("success", False)
GetSuccess(d) == IF "success" \in DOMAIN d THEN d.success ELSE FALSE

\* _analyze_iteration_results, lines 254-258
ModeData(iteration_results, mode) ==
    LET kept == SelectSeq(iteration_results,
                          LAMBDA it : /\ mode \in DOMAIN it
                                      /\ "duration" \in DOMAIN it[mode])
    IN [k \in DOMAIN kept |-> kept[k][mode]]

\* _analyze_iteration_results, lines 261-271
ModeStats(mode_data) ==
    LET durations == [k \in DOMAIN mode_data |-> mode_data[k].duration]
        flagged == SelectSeq(mode_data, GetSuccess)
    IN [avg_duration |-> Ratio(Sum(durations), Len(durations)),
        min_duration |-> Min(durations),
        max_duration |-> Max(durations),
        std_deviation |-> IF Len(durations) > 1 THEN Stdev(durations)
                          ELSE [root_of |-> Ratio(0, 1)],
        success_rate |-> Ratio(Len(flagged), Len(mode_data)),
        sample_metrics |-> mode_data[1]]

\* _analyze_iteration_results
AnalyzeIterationResults(iteration_results, config) ==
    [config |-> config,
     iterations |-> Len(iteration_results),
     modes |-> [mode \in {m \in Range(Modes) :
                            ModeData(iteration_results, m) # <<>>} |->
                  ModeStats(ModeData(iteration_results, mode))]]

ScenarioLists ==
    UNION { [1..n -> BenchScenarios \cup {"multi-branch"}] :
              n \in 0..MaxScenarios }

\* run_benchmark_suite(scenarios, iterations) is entered; main_py tells
\* whether the file gmo_path / "main.py" of lines 23 and 138 exists
BenchStart(scenarios, iterations, seed) ==
    [pc |-> "suite", scenarios |-> scenarios, queue |-> scenarios,
     attempted |-> <<>>, iterations |-> iterations,
     seed |-> seed, scenario |-> "", i |-> 0, m |-> 1,
     mode_results |-> EmptyMap, iteration_results |-> <<>>,
     invoked |-> <<>>, analysed |-> FALSE,
     benchmark_results |-> EmptyMap, failed |-> <<>>, reports |-> 0,
     main_py |-> TRUE]

BenchInit ==
    /\ repo \in {NoRepo, OldRepo, [NoRepo EXCEPT !.client = FALSE]}
    /\ call = NoCall
    /\ todo = <<>>
    /\ after = <<>>
    /\ pc = "idle"
    /\ gitRuns = 0
    /\ gitFailed = FALSE
    /\ carriedOn = FALSE
    /\ scenarioInfo = {}
    /\ bench \in { [BenchStart(q, n, s) EXCEPT !.main_py = found] :
                     q \in ScenarioLists, n \in 0..MaxRuns, s \in Seeds,
                     found \in BOOLEAN }
    /\ Len(bench.queue) * bench.iterations <= MaxRuns
    /\ verifier = VerifierIdle
    /\ cleanup = CleanupIdle
    /\ tester = TesterIdle

BenchOnly == UNCHANGED <<call, todo, after, pc, gitRuns, gitFailed,
                         carriedOn, scenarioInfo, verifier, cleanup, tester>>

\* run_benchmark_suite, line 41, and _benchmark_scenario, lines 73-85: a
\* configured scenario's repository is synthesized
StartScenario ==
    /\ bench.pc = "suite"
    /\ bench.queue # <<>>
    /\ Head(bench.queue) \in BenchScenarios
    /\ repo' = BenchmarkRepos[Head(bench.queue), repo.client, bench.seed]
    /\ bench' = [bench EXCEPT !.pc = "loop",
                              !.scenario = Head(bench.queue),
                              !.attempted = Append(bench.attempted,
                                                   Head(bench.queue)),
                              !.i = 0, !.m = 1,
                              !.mode_results = EmptyMap,
                              !.iteration_results = <<>>,
                              !.invoked = <<>>,
                              !.analysed = FALSE]
    /\ BenchOnly

\* run_benchmark_suite without the try/except of lines 40-46: the ValueError
\* of an unknown scenario ends the suite
UnknownScenarioAborts ==
    /\ bench.pc = "suite"
    /\ bench.queue # <<>>
    /\ Head(bench.queue) \notin BenchScenarios
    /\ bench' = [bench EXCEPT !.pc = "aborted",
                              !.attempted = Append(bench.attempted,
                                                   Head(bench.queue)),
                              !.failed = Append(bench.failed,
                                                Head(bench.queue))]
    /\ UNCHANGED repo
    /\ BenchOnly

\* _benchmark_scenario, lines 73-74, and run_benchmark_suite, lines 45-46:
\* the ValueError of an unknown scenario is caught and the suite goes on
UnknownScenario ==
    /\ bench.pc = "suite"
    /\ bench.queue # <<>>
    /\ Head(bench.queue) \notin BenchScenarios
    /\ bench' = [bench EXCEPT !.queue = Tail(bench.queue),
                              !.attempted = Append(bench.attempted,
                                                   Head(bench.queue)),
                              !.failed = Append(bench.failed,
                                                Head(bench.queue))]
    /\ UNCHANGED repo
    /\ BenchOnly

\* _create_benchmark_repo raises: the old repository is removed, then
\* create_repo fails to make the directory (create_test_repo.py line 47, an
\* OSError); run_benchmark_suite, lines 45-46, catches it and goes on
SynthesisFails ==
    /\ bench.pc = "suite"
    /\ bench.queue # <<>>
    /\ Head(bench.queue) \in BenchScenarios
    /\ repo' = [NoRepo EXCEPT !.client = repo.client]
    /\ bench' = [bench EXCEPT !.queue = Tail(bench.queue),
                              !.scenario = Head(bench.queue),
                              !.analysed = FALSE,
                              !.i = 0, !.m = 1,
                              !.mode_results = EmptyMap,
                              !.iteration_results = <<>>,
                              !.invoked = <<>>,
                              !.attempted = Append(bench.attempted,
                                                   Head(bench.queue)),
                              !.failed = Append(bench.failed,
                                                Head(bench.queue))]
    /\ BenchOnly

\* An exception other than the tool's escapes _benchmark_scenario while the
\* iterations run (os.chdir, line 118, or the rmtree of _cleanup_work_dir,
\* line 242, raising OSError); run_benchmark_suite, lines 45-46, catches it,
\* the scenario has no results, and the suite goes on
ScenarioRaises ==
    /\ bench.pc \in {"loop", "modes", "ran"}
    /\ bench.pc = "loop" => bench.i < bench.iterations
    /\ bench' = [bench EXCEPT !.pc = "suite",
                              !.queue = Tail(bench.queue),
                              !.i = 0, !.m = 1,
                              !.mode_results = EmptyMap,
                              !.iteration_results = <<>>,
                              !.invoked = <<>>,
                              !.failed = Append(bench.failed,
                                                bench.scenario)]
    /\ UNCHANGED repo
    /\ BenchOnly

\* _benchmark_scenario, line 87, and _run_single_benchmark, lines 118-122
BeginIteration ==
    /\ bench.pc = "loop"
    /\ bench.i < bench.iterations
    /\ bench' = [bench EXCEPT !.pc = "modes", !.m = 1,
                              !.mode_results = EmptyMap]
    /\ UNCHANGED repo
    /\ BenchOnly

\* _run_single_benchmark, lines 128-130: no test branch, the mode is passed
SkipMode ==
    /\ bench.pc = "modes"
    /\ bench.m <= Len(Modes)
    /\ GetTestBranches(repo) = <<>>
    /\ bench' = [bench EXCEPT !.m = bench.m + 1]
    /\ UNCHANGED repo
    /\ BenchOnly

\* _run_single_benchmark, lines 132-167: the tool is run on the mode.  With
\* no main.py the interpreter of line 138 starts, cannot open the file and
\* exits with status 2 before the tool has done anything.
InvokeTool ==
    /\ bench.pc = "modes"
    /\ bench.m <= Len(Modes)
    /\ GetTestBranches(repo) # <<>>
    /\ \E run \in (IF bench.main_py
                   THEN ToolRuns
                   ELSE { [result |-> CollectPerformanceMetrics(d, 2),
                           work |-> FALSE] : d \in Durations }) :
        /\ repo' = [repo EXCEPT !.work = (repo.work \/ run.work)]
        /\ bench' = [bench EXCEPT
                        !.pc = "ran",
                        !.invoked = Append(bench.invoked,
                                           [iteration |-> bench.i + 1,
                                            mode |-> Modes[bench.m]]),
                        !.mode_results = Put(bench.mode_results,
                                             Modes[bench.m], run.result)]
    /\ BenchOnly

\* _run_single_benchmark with the cleanup of lines 169-170 left out
CleanupAfterModeSkipped ==
    /\ bench.pc = "ran"
    /\ UNCHANGED repo
    /\ bench' = [bench EXCEPT !.pc = "modes", !.m = bench.m + 1]
    /\ BenchOnly

\* _run_single_benchmark, lines 169-170
CleanupAfterMode ==
    /\ bench.pc = "ran"
    /\ repo' = CleanupWorkDir(repo)
    /\ bench' = [bench EXCEPT !.pc = "modes", !.m = bench.m + 1]
    /\ BenchOnly

\* _run_single_benchmark, line 172, and _benchmark_scenario, lines 90-93
EndIteration ==
    /\ bench.pc = "modes"
    /\ bench.m > Len(Modes)
    /\ repo' = CleanupWorkDir(repo)
    /\ bench' = [bench EXCEPT
                    !.pc = "loop",
                    !.i = bench.i + 1,
                    !.iteration_results = Append(bench.iteration_results,
                                                 bench.mode_results)]
    /\ BenchOnly

\* _benchmark_scenario, line 95, and run_benchmark_suite, lines 42-43
AnalyzeScenario ==
    /\ bench.pc = "loop"
    /\ bench.i >= bench.iterations
    /\ bench' = [bench EXCEPT
                    !.pc = "suite",
                    !.queue = Tail(bench.queue),
                    !.analysed = TRUE,
                    !.benchmark_results =
                        Put(bench.benchmark_results, bench.scenario,
                            AnalyzeIterationResults(
                                bench.iteration_results,
                                ScenarioConfig(bench.scenario)))]
    /\ UNCHANGED repo
    /\ BenchOnly

\* run_benchmark_suite, line 48: _generate_benchmark_report
GenerateReport ==
    /\ bench.pc = "suite"
    /\ bench.queue = <<>>
    /\ bench' = [bench EXCEPT !.pc = "reported",
                              !.reports = bench.reports + 1]
    /\ UNCHANGED repo
    /\ BenchOnly

BenchNext ==
    \/ StartScenario
    \/ UnknownScenario
    \/ SynthesisFails
    \/ ScenarioRaises
    \/ BeginIteration
    \/ SkipMode
    \/ InvokeTool
    \/ CleanupAfterMode
    \/ EndIteration
    \/ AnalyzeScenario
    \/ GenerateReport

SpecBench == BenchInit /\ [][BenchNext]_vars

----------------------------------------------------------------------------
(* _analyze_iteration_results as a function of the iteration results it is *)
(* handed: the executor stands at line 95 of _benchmark_scenario with any   *)
(* list of up to MaxSamples iteration results, each either empty (both      *)
(* modes passed over) or holding one result per mode.                       *)

MaxSamples == 3

SampleDurations == {2, 4, 6}

SampleResults ==
    { CollectPerformanceMetrics(d, 0) : d \in SampleDurations }
    \cup { TimedOut, Errored }

SampleIterations ==
    { EmptyMap }
    \cup { Put(Put(EmptyMap, Modes[1], a), Modes[2], b) :
             a \in SampleResults, b \in SampleResults }

SampleLists ==
    UNION { [1..n -> SampleIterations] : n \in 0..MaxSamples }

StatsInit ==
    /\ repo = [NoRepo EXCEPT !.exists = TRUE]
    /\ call = NoCall
    /\ todo = <<>>
    /\ after = <<>>
    /\ pc = "idle"
    /\ gitRuns = 0
    /\ gitFailed = FALSE
    /\ carriedOn = FALSE
    /\ scenarioInfo = {}
    /\ \E results \in SampleLists :
         bench = [BenchStart(<<"simple">>, Len(results), 0) EXCEPT
                     !.pc = "loop", !.scenario = "simple",
                     !.i = Len(results), !.m = Len(Modes) + 1,
                     !.iteration_results = results]
    /\ verifier = VerifierIdle
    /\ cleanup = CleanupIdle
    /\ tester = TesterIdle

StatsNext == AnalyzeScenario

SpecStats == StatsInit /\ [][StatsNext]_vars

----------------------------------------------------------------------------
(* TestResultVerifier (verify_results.py).                                 *)
(*                                                                         *)
(* A scenario directory test-repos/<repo_name> as the verifier reads it:   *)
(*   exists      : the directory exists                                    *)
(*   ignore_file : .merge_ignore exists; ignore its lines, each a pattern  *)
(*   plan        : .merge_work/merge_plan.json: kind "absent", "invalid"   *)
(*                 (not JSON), "list" (JSON, but an array), or "dict" with *)
(*                 data the object it holds                                *)
(*   scripts_dir : .merge_work/scripts exists; scripts its *.sh files      *)
(* A path is its sequence of tokens, separators and extension included,    *)
(* so that endswith and substring tests are computed on it.                *)
(* A check returns a value or raises; shown is the file list it prints.    *)

\* the sentinel of lines 149 and 156, written there in Chinese characters
Unassigned == "unassigned"

DictGet(d, key, default) == IF key \in DOMAIN d THEN d[key] ELSE default

Returns(v) == [raised |-> FALSE, value |-> v, shown |-> <<>>]
Raises == [raised |-> TRUE, value |-> FALSE, shown |-> <<>>]

\* _validate_plan_structure with processing_mode read without a default
\* and required to be one of the two modes
ValidatePlanStructureStrict(plan) ==
    IF plan.kind # "dict" THEN FALSE
    ELSE LET plan_data == plan.data
             required_fields == {"source_branch", "target_branch", "timestamp"}
             processing_mode == DictGet(plan_data, "processing_mode", "")
         IN IF ~(required_fields \subseteq DOMAIN plan_data) THEN FALSE
            ELSE IF processing_mode = "file_level"
                 THEN "files" \in DOMAIN plan_data
                 ELSE processing_mode = "group_based"
                      /\ "groups" \in DOMAIN plan_data

\* _validate_plan_structure; `field in plan_data` on an array tests its
\* elements, which are none of the field names
ValidatePlanStructure(plan) ==
    IF plan.kind # "dict" THEN FALSE
    ELSE LET plan_data == plan.data
             required_fields == {"source_branch", "target_branch", "timestamp"}
             processing_mode ==
                 DictGet(plan_data, "processing_mode", "group_based")
         IN IF ~(required_fields \subseteq DOMAIN plan_data) THEN FALSE
            ELSE IF processing_mode = "file_level"
                 THEN "files" \in DOMAIN plan_data
                 ELSE "groups" \in DOMAIN plan_data
\* (isinstance(..., list), lines 243 and 245: the files and groups of the
\* plans of this model are lists whenever they are present)

\* _verify_merge_conflicts
VerifyMergeConflicts(dir) ==
    IF dir.plan.kind \in {"absent", "invalid"} THEN Returns(FALSE)
    ELSE IF ~ValidatePlanStructure(dir.plan) THEN Returns(FALSE)
    ELSE IF ~dir.scripts_dir \/ dir.scripts = 0 THEN Returns(FALSE)
    ELSE Returns(TRUE)

\* _verify_file_level_processing; plan_data.get on an array raises
\* AttributeError, which the method does not catch
VerifyFileLevelProcessing(dir) ==
    IF dir.plan.kind \in {"absent", "invalid"} THEN Returns(FALSE)
    ELSE IF dir.plan.kind = "list" THEN Raises
    ELSE LET plan_data == dir.plan.data
             files == plan_data.files
             first == SubSeq(files, 1, IF Len(files) < 3 THEN Len(files) ELSE 3)
         IN IF DictGet(plan_data, "processing_mode", "") # "file_level"
            THEN Returns(FALSE)
            ELSE IF "files" \notin DOMAIN plan_data THEN Returns(FALSE)
            ELSE IF files = <<>> THEN Returns(FALSE)
            ELSE Returns(\A k \in DOMAIN first :
                     {"path", "assignee", "status"} \subseteq DOMAIN first[k])

\* lines 145-161: assignee -> number of files, the sentinel left out
AssigneeWorkload(plan_data) ==
    LET file_level == DictGet(plan_data, "processing_mode", "") = "file_level"
        entries == IF file_level THEN DictGet(plan_data, "files", <<>>)
                   ELSE DictGet(plan_data, "groups", <<>>)
        assignee(k) == DictGet(entries[k], "assignee", Unassigned)
        count(k) == IF file_level THEN 1
                    ELSE Len(DictGet(entries[k], "files", <<>>))
        assigned == {assignee(k) : k \in DOMAIN entries} \ {Unassigned}
    IN [a \in assigned |->
           Sum([k \in DOMAIN entries |->
                   IF assignee(k) = a THEN count(k) ELSE 0])]

\* _verify_load_balancing without lines 163-165: an empty workload table
\* falls through to the fewer-than-two case
VerifyLoadBalancingLenient(dir) ==
    IF dir.plan.kind \in {"absent", "invalid"} THEN Returns(FALSE)
    ELSE IF dir.plan.kind = "list" THEN Raises
    ELSE Returns(TRUE)

\* _verify_load_balancing
VerifyLoadBalancing(dir) ==
    IF dir.plan.kind \in {"absent", "invalid"} THEN Returns(FALSE)
    ELSE IF dir.plan.kind = "list" THEN Raises
    ELSE LET assignee_workload == AssigneeWorkload(dir.plan.data)
         IN IF DOMAIN assignee_workload = {} THEN Returns(FALSE)
            ELSE IF Cardinality(DOMAIN assignee_workload) < 2
                 THEN Returns(TRUE)
                 ELSE Returns(TRUE)

\* lines 210-217, for one path: f.endswith(ext) or dir_name in f
HasIgnored(f) ==
    LET ignored_extensions == {".pyc", ".log", ".tmp", ".DS_Store"}
        ignored_dirs == {"__pycache__", "node_modules", ".vscode"}
    IN \/ f # <<>> /\ f[Len(f)] \in ignored_extensions
       \/ \E k \in DOMAIN f : f[k] \in ignored_dirs

\* lines 202-207; f["path"] raises KeyError on an entry without a path
ProcessedFiles(plan_data) ==
    IF DictGet(plan_data, "processing_mode", "") = "file_level"
    THEN LET files == DictGet(plan_data, "files", <<>>)
         IN [k \in DOMAIN files |-> files[k].path]
    ELSE Flatten([k \in DOMAIN DictGet(plan_data, "groups", <<>>) |->
                     DictGet(plan_data.groups[k], "files", <<>>)])

\* _verify_ignore_rules without the test of lines 187-190
VerifyIgnoreRulesAnyway(dir) ==
    IF dir.plan.kind \in {"absent", "invalid"} THEN Returns(FALSE)
    ELSE IF dir.plan.kind = "list" THEN Raises
    ELSE IF /\ DictGet(dir.plan.data, "processing_mode", "") = "file_level"
            /\ \E k \in DOMAIN DictGet(dir.plan.data, "files", <<>>) :
                  "path" \notin DOMAIN dir.plan.data.files[k]
         THEN Raises
    ELSE LET processed_files == ProcessedFiles(dir.plan.data)
             n == IF Len(processed_files) < 5 THEN Len(processed_files) ELSE 5
         IN IF \E k \in DOMAIN processed_files : HasIgnored(processed_files[k])
            THEN [raised |-> FALSE, value |-> FALSE,
                  shown |-> SubSeq(processed_files, 1, n)]
            ELSE Returns(TRUE)

\* _verify_ignore_rules
VerifyIgnoreRules(dir) ==
    IF ~dir.ignore_file THEN Returns(FALSE)
    ELSE IF dir.plan.kind \in {"absent", "invalid"} THEN Returns(FALSE)
    ELSE IF dir.plan.kind = "list" THEN Raises
    ELSE IF /\ DictGet(dir.plan.data, "processing_mode", "") = "file_level"
            /\ \E k \in DOMAIN DictGet(dir.plan.data, "files", <<>>) :
                  "path" \notin DOMAIN dir.plan.data.files[k]
         THEN Raises
    ELSE LET processed_files == ProcessedFiles(dir.plan.data)
             n == IF Len(processed_files) < 5 THEN Len(processed_files) ELSE 5
         IN IF \E k \in DOMAIN processed_files : HasIgnored(processed_files[k])
            THEN [raised |-> FALSE, value |-> FALSE,
                  shown |-> SubSeq(processed_files, 1, n)]
            ELSE Returns(TRUE)

\* _get_verification_details
GetVerificationDetails(dir) ==
    LET plan_data == dir.plan.data
        mode == DictGet(plan_data, "processing_mode", "unknown")
        plan_details ==
            CASE dir.plan.kind = "absent" -> EmptyMap
              [] dir.plan.kind = "invalid" ->
                   [plan_file_error |-> "JSON format error"]
              [] dir.plan.kind = "dict" ->
                   [processing_mode |-> mode,
                    source_branch |->
                        DictGet(plan_data, "source_branch", "unknown"),
                    target_branch |->
                        DictGet(plan_data, "target_branch", "unknown")]
                   @@ (IF mode = "file_level"
                       THEN [files_count |->
                                Len(DictGet(plan_data, "files", <<>>))]
                       ELSE [groups_count |->
                                Len(DictGet(plan_data, "groups", <<>>))])
        scripts_details ==
            IF dir.scripts_dir THEN [generated_scripts |-> dir.scripts]
            ELSE EmptyMap
    IN IF dir.plan.kind = "list" THEN [raised |-> TRUE, details |-> EmptyMap]
       ELSE [raised |-> FALSE, details |-> plan_details @@ scripts_details]
\* verify_all_scenarios, lines 25-30: repository name and its check
ScenariosToVerify ==
    <<"merge-conflicts-test", "file-level-test", "load-balancing-test",
      "ignore-rules-test">>

VerifyFunc(repo_name, dir) ==
    CASE repo_name = "merge-conflicts-test" -> VerifyMergeConflicts(dir)
      [] repo_name = "file-level-test" -> VerifyFileLevelProcessing(dir)
      [] repo_name = "load-balancing-test" -> VerifyLoadBalancing(dir)
      [] repo_name = "ignore-rules-test" -> VerifyIgnoreRules(dir)

(* The directories the verifier may find.  Bounds: at most MaxRepos of the *)
(* four scenario directories exist; an assignee holds up to MaxWorkload    *)
(* files; the plans of the ignore-rules scenario list MaxPaths paths.      *)
MaxRepos == 2
MaxWorkload == 10
MaxPaths == 6

NoDir ==
    [exists |-> FALSE, ignore_file |-> FALSE, ignore |-> <<>>,
     plan |-> [kind |-> "absent"], scripts_dir |-> FALSE, scripts |-> 0]

\* what may stand at test-repos/<repo_name>
TestRepos(repo_name) ==
    LET Clean(k) == <<"src", "/", "file_" \o ToString(k), ".py">>
        Header ==
            [source_branch |-> "feature", target_branch |-> "master",
             timestamp |-> "2025-01-01T00:00:00"]
        FilePlan(files) ==
            [kind |-> "dict",
             data |-> Header @@ [processing_mode |-> "file_level",
                                 files |-> files]]
        GroupPlan(groups) ==
            [kind |-> "dict",
             data |-> Header @@ [processing_mode |-> "group_based",
                                 groups |-> groups]]
        \* a files by Alice, b by Bob, u without an assignee
        SplitFiles(a, b, u) ==
            [k \in 1..(a + b + u) |->
                IF k <= a + b
                THEN [path |-> Clean(k), status |-> "pending",
                      assignee |-> IF k <= a THEN "Alice" ELSE "Bob"]
                ELSE [path |-> Clean(k), status |-> "pending"]]
        \* the same workloads as groups, one per holder, empty groups
        \* left out
        Group(who, from, n) ==
            [name |-> who, assignee |-> who,
             files |-> [k \in 1..n |-> Clean(from + k)]]
        SplitGroups(a, b, u) ==
            SelectSeq(<<Group("Alice", 0, a), Group("Bob", a, b),
                        Group(Unassigned, a + b, u)>>,
                      LAMBDA g : g.files # <<>>)
        \* plan files that hold no usable object
        BrokenPlans ==
            {[kind |-> "absent"], [kind |-> "invalid"], [kind |-> "list"]}
        \* objects carrying any selection of the six top-level fields but
        \* source_branch and target_branch, which are always there
        Full(mode) ==
            Header @@ [processing_mode |-> mode,
                       files |-> SplitFiles(1, 1, 0),
                       groups |-> SplitGroups(1, 1, 0)]
        StructurePlans ==
            {[kind |-> "dict",
              data |-> [f \in {"source_branch", "target_branch"} \cup keys
                          |-> Full(mode)[f]]] :
                keys \in SUBSET {"timestamp", "processing_mode", "files",
                                 "groups"},
                mode \in {"file_level", "group_based"}}
        \* and groups whose assignee holds no file
        WorkloadPlans ==
            {FilePlan(SplitFiles(a, b, u)) :
                a \in {0, 1, 5}, b \in {0, 5, MaxWorkload}, u \in 0..1}
            \cup {GroupPlan(SplitGroups(a, b, u)) :
                a \in {0, 1, 5}, b \in {0, 5, MaxWorkload}, u \in 0..1}
            \cup {GroupPlan(<<Group("Alice", 0, 0)>> \o SplitGroups(0, b, 0)) :
                b \in {0, 5}}
        \* MaxPaths paths, none or one of them (at either end) a compiled
        \* file or a build output; and a file list with an entry that has
        \* no path
        PathLists ==
            {[k \in 1..MaxPaths |-> IF k = pos THEN p ELSE Clean(k)] :
                p \in {<<"src", "/", "module", ".pyc">>,
                       <<"build", "/", "output", ".o">>},
                pos \in {0, 1, MaxPaths}}
        Entries(paths) ==
            [k \in DOMAIN paths |->
                [path |-> paths[k], assignee |-> "Alice",
                 status |-> "pending"]]
        PathPlans ==
            {FilePlan(Entries(paths)) : paths \in PathLists}
            \cup {GroupPlan(<<[name |-> "g", assignee |-> "Alice",
                               files |-> paths]>>) : paths \in PathLists}
            \cup {FilePlan(<<[assignee |-> "Alice", status |-> "pending"]>>)}
        \* .merge_ignore: missing, or listing one extension or one directory
        IgnoreFiles ==
            {[ignore_file |-> FALSE, ignore |-> <<>>],
             [ignore_file |-> TRUE, ignore |-> << <<"*", ".pyc">> >>],
             [ignore_file |-> TRUE, ignore |-> << <<"build", "/">> >>]}
        Dir(ignore, plan, scripts_dir, scripts) ==
            [exists |-> TRUE, ignore_file |-> ignore.ignore_file,
             ignore |-> ignore.ignore, plan |-> plan,
             scripts_dir |-> scripts_dir, scripts |-> scripts]
        Listed == [ignore_file |-> TRUE, ignore |-> << <<"*", ".pyc">> >>]
        Plain(plans) == {Dir(Listed, plan, TRUE, 1) : plan \in plans}
    IN {NoDir} \cup
       CASE repo_name = "merge-conflicts-test" ->
              Plain(BrokenPlans \cup StructurePlans)
              \cup {Dir(Listed, FilePlan(SplitFiles(1, 1, 0)),
                        scripts_dir, 0) : scripts_dir \in BOOLEAN}
         [] repo_name = "file-level-test" ->
              Plain(BrokenPlans \cup
                    {FilePlan(SplitFiles(a, 0, u)) : a \in 0..1, u \in 0..1}
                    \cup {GroupPlan(SplitGroups(1, 0, 0))})
         [] repo_name = "load-balancing-test" ->
              Plain(BrokenPlans \cup WorkloadPlans)
         [] repo_name = "ignore-rules-test" ->
              {Dir(i, plan, TRUE, 1) :
                  i \in IgnoreFiles, plan \in BrokenPlans \cup PathPlans}

\* TestResultVerifier.__init__ and the entry of verify_all_scenarios, for
\* every content of test-repos with at most MaxRepos scenario directories
\* (verifier.test_repos; printed holds the file lists the checks printed,
\* first what an earlier run of main on the same directories came to)
VerifierInit ==
    LET RECURSIVE Disks(_, _)
        Disks(names, room) ==
            IF names = <<>> THEN {EmptyMap}
            ELSE UNION {{Put(rest, Head(names), d) :
                            rest \in Disks(Tail(names),
                                           IF d.exists THEN room - 1
                                           ELSE room)} :
                          d \in IF room = 0 THEN {NoDir}
                                ELSE TestRepos(Head(names))}
    IN /\ repo = NoRepo
       /\ call = NoCall
       /\ todo = <<>>
       /\ after = <<>>
       /\ pc = "idle"
       /\ gitRuns = 0
       /\ gitFailed = FALSE
       /\ carriedOn = FALSE
       /\ scenarioInfo = {}
       /\ bench = BenchIdle
       /\ cleanup = CleanupIdle
       /\ tester = TesterIdle
       /\ verifier \in
            {[pc |-> "loop", test_repos |-> test_repos, i |-> 1,
              verification_results |-> <<>>, printed |-> EmptyMap,
              returned |-> FALSE, first |-> <<>>] :
                test_repos \in Disks(ScenariosToVerify, MaxRepos)}

VerifierOnly == UNCHANGED <<synthVars, bench, cleanup, tester>>

\* lines 32-37: the scenario's directory does not exist
SkipMissingRepo ==
    /\ verifier.pc = "loop"
    /\ verifier.i <= Len(ScenariosToVerify)
    /\ ~verifier.test_repos[ScenariosToVerify[verifier.i]].exists
    /\ verifier' = [verifier EXCEPT !.i = @ + 1]
    /\ VerifierOnly

\* lines 42-53: the check and the details both return
RecordOutcome ==
    /\ verifier.pc = "loop"
    /\ verifier.i <= Len(ScenariosToVerify)
    /\ LET repo_name == ScenariosToVerify[verifier.i]
           repo_path == verifier.test_repos[repo_name]
           result == VerifyFunc(repo_name, repo_path)
           details == GetVerificationDetails(repo_path)
       IN /\ repo_path.exists
          /\ ~result.raised
          /\ ~details.raised
          /\ verifier' =
               [verifier EXCEPT
                  !.i = @ + 1,
                  !.printed = Put(@, repo_name, result.shown),
                  !.verification_results =
                      Append(@, [scenario |-> repo_name,
                                 success |-> result.value,
                                 details |-> details.details])]
    /\ VerifierOnly

\* lines 42-53 without the handler of lines 55-59: the exception leaves
\* verify_all_scenarios
RecordExceptionUncaught ==
    /\ verifier.pc = "loop"
    /\ verifier.i <= Len(ScenariosToVerify)
    /\ LET repo_name == ScenariosToVerify[verifier.i]
           repo_path == verifier.test_repos[repo_name]
       IN /\ repo_path.exists
          /\ \/ VerifyFunc(repo_name, repo_path).raised
             \/ GetVerificationDetails(repo_path).raised
    /\ verifier' = [verifier EXCEPT !.pc = "raised"]
    /\ VerifierOnly

\* lines 55-59: the check, or the details after it, raised
RecordException ==
    /\ verifier.pc = "loop"
    /\ verifier.i <= Len(ScenariosToVerify)
    /\ LET repo_name == ScenariosToVerify[verifier.i]
           repo_path == verifier.test_repos[repo_name]
           result == VerifyFunc(repo_name, repo_path)
           details == GetVerificationDetails(repo_path)
       IN /\ repo_path.exists
          /\ result.raised \/ details.raised
          /\ verifier' =
               [verifier EXCEPT
                  !.i = @ + 1,
                  !.printed = Put(@, repo_name, result.shown),
                  !.verification_results =
                      Append(@, [scenario |-> repo_name,
                                 success |-> FALSE,
                                 error |-> "exception"])]
    /\ VerifierOnly

\* lines 61-62
PrintVerificationSummary ==
    /\ verifier.pc = "loop"
    /\ verifier.i > Len(ScenariosToVerify)
    /\ verifier' =
         [verifier EXCEPT
            !.pc = "returned",
            !.returned = \A k \in DOMAIN verifier.verification_results :
                            verifier.verification_results[k].success]
    /\ VerifierOnly

\* main run once more with the verifier object of the first run, whose
\* verification_results list is never emptied
MainAgainSameVerifier ==
    /\ verifier.pc = "returned"
    /\ verifier.first = <<>>
    /\ verifier' =
         [verifier EXCEPT
            !.pc = "loop", !.i = 1, !.printed = EmptyMap,
            !.returned = FALSE,
            !.first = <<[verification_results |->
                             verifier.verification_results,
                         printed |-> verifier.printed,
                         returned |-> verifier.returned]>>]
    /\ VerifierOnly

\* main, lines 313-342, run once more on the same test directory: a new
\* TestResultVerifier (lines 16-18) goes through verify_all_scenarios
MainAgain ==
    /\ verifier.pc = "returned"
    /\ verifier.first = <<>>
    /\ verifier' =
         [verifier EXCEPT
            !.pc = "loop", !.i = 1, !.verification_results = <<>>,
            !.printed = EmptyMap, !.returned = FALSE,
            !.first = <<[verification_results |->
                             verifier.verification_results,
                         printed |-> verifier.printed,
                         returned |-> verifier.returned]>>]
    /\ VerifierOnly

VerifierNext ==
    \/ SkipMissingRepo
    \/ RecordOutcome
    \/ RecordException
    \/ PrintVerificationSummary
    \/ MainAgain

SpecVerify == VerifierInit /\ [][VerifierNext]_vars

----------------------------------------------------------------------------
(* TestCleanupTool (cleanup.py), as main drives it without --list.         *)
(*                                                                         *)
(* cleanup.args holds the parsed command line: all, logs and force are     *)
(* flags; repos is <<>> when --repos is absent and <<names>> when it is    *)
(* given (names may be empty); older_than is <<>> when --older-than is     *)
(* absent and <<days>> otherwise.  A directory is [exists, items]: the     *)
(* repositories of test-repos by name, the files of logs with their age in *)
(* days, the files of scenarios.  asked and response tell whether the last *)
(* operation called input() and what was typed.                            *)

\* TestCleanupTool.__init__ and the entry of main, lines 348-351, for every
\* command line and every content of the three directories
CleanupInit ==
    LET Dirs(pool) == {[exists |-> FALSE, items |-> {}]}
                      \cup {[exists |-> TRUE, items |-> some] :
                              some \in SUBSET pool}
        RepoLists == {<<>>, <<"simple-test">>,
                      <<"complex-test", "simple-test">>}
        LogFiles == {[name |-> "benchmark_report.json", age |-> 10],
                     [name |-> "verification_report.json", age |-> 1]}
        Arguments ==
            [all : BOOLEAN, logs : BOOLEAN, force : BOOLEAN,
             repos : {<<>>} \cup {<<names>> : names \in RepoLists},
             older_than : {<<>>, <<0>>, <<7>>}]
    IN /\ repo = NoRepo
       /\ call = NoCall
       /\ todo = <<>>
       /\ after = <<>>
       /\ pc = "idle"
       /\ gitRuns = 0
       /\ gitFailed = FALSE
       /\ carriedOn = FALSE
       /\ scenarioInfo = {}
       /\ bench = BenchIdle
       /\ verifier = VerifierIdle
       /\ tester = TesterIdle
       /\ cleanup \in
            {[pc |-> "main", args |-> args, test_repos |-> test_repos,
              logs |-> logs, scenarios |-> scenarios,
              asked |-> FALSE, response |-> ""] :
                args \in Arguments,
                test_repos \in Dirs({"simple-test", "complex-test"}),
                logs \in Dirs(LogFiles),
                scenarios \in Dirs({"simple.json"})}

CleanupOnly == UNCHANGED <<synthVars, bench, verifier, tester>>

\* what the user may type at a prompt
Responses == Answers \cup {"yes"}

\* response.lower() in ["yes", "y"]
Confirms(response) == Lower(response) \in {"yes", "y"}

\* main, lines 357-359, and cleanup_all: the prompt of lines 27-32, then the
\* three directories are removed and made again
CleanupAll ==
    /\ cleanup.pc = "main"
    /\ cleanup.args.all
    /\ \E response \in Responses :
         LET confirm == ~cleanup.args.force
             Emptied(dir) == IF dir.exists THEN [dir EXCEPT !.items = {}]
                             ELSE dir
         IN cleanup' =
              IF confirm /\ ~Confirms(response)
              THEN [cleanup EXCEPT !.pc = "done", !.asked = TRUE,
                                   !.response = response]
              ELSE [cleanup EXCEPT
                      !.pc = "done",
                      !.asked = confirm,
                      !.response = IF confirm THEN response ELSE "",
                      !.test_repos = Emptied(@),
                      !.logs = Emptied(@),
                      !.scenarios = Emptied(@)]
    /\ CleanupOnly

\* main, lines 361-367, and cleanup_repos: an empty --repos stands for all
\* repositories; a removal may fail (lines 98-104) for the repositories of
\* `failing`
CleanupRepos ==
    /\ cleanup.pc = "main"
    /\ ~cleanup.args.all
    /\ cleanup.args.repos # <<>>
    /\ \E response \in Responses,
          failing \in SUBSET cleanup.test_repos.items :
         LET confirm == ~cleanup.args.force
             every == cleanup.args.repos[1] = <<>>
             repos_to_clean ==
                 IF every THEN cleanup.test_repos.items
                 ELSE Range(cleanup.args.repos[1])
                        \cap cleanup.test_repos.items
             asked == cleanup.test_repos.exists /\ every /\ confirm
             removed == IF ~cleanup.test_repos.exists
                           \/ (asked /\ ~Confirms(response))
                        THEN {}
                        ELSE repos_to_clean \ failing
         IN cleanup' = [cleanup EXCEPT
                          !.pc = "repos",
                          !.asked = asked,
                          !.response = IF asked THEN response ELSE "",
                          !.test_repos.items = @ \ removed]
    /\ CleanupOnly

\* main, lines 369-370, and cleanup_logs: a file is older than the cutoff of
\* line 118 when its age exceeds older_than_days; a removal may fail (lines
\* 137-145) for the files of `failing`
CleanupLogs ==
    /\ \/ cleanup.pc = "repos"
       \/ cleanup.pc = "main" /\ ~cleanup.args.all
                              /\ cleanup.args.repos = <<>>
    /\ cleanup.args.logs
    /\ \E response \in Responses, failing \in SUBSET cleanup.logs.items :
         LET confirm == ~cleanup.args.force
             older_than_days == cleanup.args.older_than
             by_age == older_than_days # <<>> /\ older_than_days[1] # 0
             files_to_clean ==
                 IF by_age
                 THEN {f \in cleanup.logs.items :
                          f.age > older_than_days[1]}
                 ELSE cleanup.logs.items
             asked == cleanup.logs.exists /\ ~by_age /\ confirm
             removed == IF ~cleanup.logs.exists
                           \/ (asked /\ ~Confirms(response))
                        THEN {}
                        ELSE files_to_clean \ failing
         IN cleanup' = [cleanup EXCEPT
                          !.pc = "done",
                          !.asked = asked,
                          !.response = IF asked THEN response ELSE "",
                          !.logs.items = @ \ removed]
    /\ CleanupOnly

CleanupNext ==
    \/ CleanupAll
    \/ CleanupRepos
    \/ CleanupLogs

SpecCleanup == CleanupInit /\ [][CleanupNext]_vars

----------------------------------------------------------------------------
(* IntegrationTester (integration_tests.py), as main drives it.            *)
(*                                                                         *)
(* A Python value that may be None is a sequence: <<>> for None, <<v>> for *)
(* the value v.  tester.results is self.results without the durations and  *)
(* timestamps; generated is the value _generate_report returned, success   *)
(* the value main received from run_all_tests, exit_status the status the  *)
(* process ended with.                                                     *)

\* run_all_tests, lines 34-41
TestScenarios ==
    <<"basic_functionality", "file_level_processing", "merge_conflicts",
      "load_balancing", "ignore_rules", "performance">>

\* the entry of main, lines 415-428; main_py tells whether gmo_path / "main.py"
\* exists
TesterInit ==
    /\ repo = NoRepo
    /\ call = NoCall
    /\ todo = <<>>
    /\ after = <<>>
    /\ pc = "idle"
    /\ gitRuns = 0
    /\ gitFailed = FALSE
    /\ carriedOn = FALSE
    /\ scenarioInfo = {}
    /\ bench = BenchIdle
    /\ verifier = VerifierIdle
    /\ cleanup = CleanupIdle
    /\ tester \in {[pc |-> "main", main_py |-> found, i |-> 1,
                    results |-> <<>>, reports |-> 0, generated |-> <<>>,
                    success |-> <<>>, exit_status |-> <<>>] :
                      found \in BOOLEAN}

TesterOnly == UNCHANGED <<synthVars, bench, verifier, cleanup>>

\* bool(value), for None and the booleans
Truthy(value) == value # <<>> /\ value[1]

\* IntegrationTester.__init__, lines 24-27: the RuntimeError leaves main
\* through its finally clause and ends the process with status 1
ConstructorRaises ==
    /\ tester.pc = "main"
    /\ ~tester.main_py
    /\ tester' = [tester EXCEPT !.pc = "exited", !.exit_status = <<1>>]
    /\ TesterOnly

\* run_all_tests, lines 43-74: the next test returns True or False, or
\* raises
RunTest ==
    /\ tester.pc = "main"
    /\ tester.main_py
    /\ tester.i <= Len(TestScenarios)
    /\ \E outcome \in {"True", "False", "raises"} :
         LET test_name == TestScenarios[tester.i]
             record == IF outcome = "raises"
                       THEN [test_name |-> test_name, success |-> FALSE,
                             error |-> "error"]
                       ELSE [test_name |-> test_name,
                             success |-> (outcome = "True")]
         IN tester' = [tester EXCEPT !.i = @ + 1,
                                     !.results = Append(@, record)]
    /\ TesterOnly

\* run_all_tests, line 76, and _generate_report: the report is written and
\* its value dropped; run_all_tests ends without a return statement, so main
\* receives None (line 429)
TesterGenerateReport ==
    /\ tester.pc = "main"
    /\ tester.main_py
    /\ tester.i > Len(TestScenarios)
    /\ LET total_tests == Len(tester.results)
           passed_tests == Len(SelectSeq(tester.results,
                                         LAMBDA r : r.success))
       IN tester' = [tester EXCEPT
                       !.pc = "ran",
                       !.reports = @ + 1,
                       !.generated = <<passed_tests = total_tests>>,
                       !.success = <<>>]
    /\ TesterOnly

\* main, line 432: sys.exit(0 if success else 1)
TesterExit ==
    /\ tester.pc = "ran"
    /\ tester' = [tester EXCEPT
                    !.pc = "exited",
                    !.exit_status = <<IF Truthy(tester.success) THEN 0
                                      ELSE 1>>]
    /\ TesterOnly

TesterNext ==
    \/ ConstructorRaises
    \/ RunTest
    \/ TesterGenerateReport
    \/ TesterExit

SpecTests == TesterInit /\ [][TesterNext]_vars

----------------------------------------------------------------------------
(* Observations used by the properties.                                    *)

\* the branch names a complex synthesis was asked for
Requested(c) == Get(c.kw.branches, ComplexBranches)

NamesOf(list) == {Join(list[i]) : i \in DOMAIN list}

Unique(list) == Cardinality(NamesOf(list)) = Len(list)

\* the commits of the repository, over all its branches
Commits(r) == UNION {Range(r.refs[b].log) : b \in DOMAIN r.refs}

\* the contributors a call was configured with: those passed, else the
\* defaults of its repository type
Configured(c) ==
    IF c.kw.contributors.given THEN Range(c.kw.contributors.v)
    ELSE CASE c.type = "simple" -> Range(SimpleContributors)
           [] c.type = "complex" -> Range(ComplexContributors)
           [] c.type = "multi-branch" ->
                Range(ComplexContributors) \cup Range(MultiBranchContributors)
           [] c.type = "large-scale" -> Range(LargeScaleContributors)
           [] OTHER -> {}

\* every file of the working tree is recorded, as it is, in some commit
AllCommitted(r) ==
    \A p \in DOMAIN r.wt :
        \E b \in DOMAIN r.refs :
            /\ p \in DOMAIN r.refs[b].tree
            /\ r.refs[b].tree[p] = r.wt[p]

----------------------------------------------------------------------------
(* Properties.                                                             *)

SimpleAliceBob ==
    /\ pc = "returned"
    /\ call.type = "simple"
    /\ call.kw.contributors = Given(<<"Alice", "Bob">>)

\* C2 as stated: a simple synthesis with contributors ["Alice", "Bob"]
\* yields one working branch `feature`, exactly three commits in addition to
\* the initial commit, and the trunk checked out.
C2_AsStated ==
    SimpleAliceBob
        => /\ DOMAIN repo.refs = {Trunk, "feature"}
           /\ Cardinality(Commits(repo)) = 1 + 3
           /\ repo.head = Trunk

\* C2 amended: a simple synthesis with contributors ["Alice", "Bob"] yields
\* one working branch `feature`, exactly two commits in addition to the
\* initial commit (three in all, the initial one by Alice on the trunk, the
\* other two by Bob on `feature`), and the trunk checked out.
C2_TwoFurtherCommits ==
    SimpleAliceBob
        => /\ DOMAIN repo.refs = {Trunk, "feature"}
           /\ Cardinality(Commits(repo)) = 1 + 2
           /\ Len(repo.refs[Trunk].log) = 1
           /\ repo.refs[Trunk].log[1].author = "Alice"
           /\ Len(repo.refs["feature"].log) = 3
           /\ \A k \in 2..3 : repo.refs["feature"].log[k].author = "Bob"
           /\ repo.head = Trunk

C2_Witness ==
    /\ SimpleAliceBob
    /\ Cardinality(Commits(repo)) = 3
    /\ "feature" \in DOMAIN repo.refs

\* C3: in every state of every synthesis and scenario setup, each commit of
\* the repository has a non-empty author who is one of the contributors the
\* call was configured with, or the default identity "Test User".
C3_AuthorsAreContributors ==
    \A e \in Commits(repo) :
        /\ e.author # ""
        /\ e.author \in Configured(call) \cup {DefaultUser}

C3_Witness ==
    /\ pc = "done"
    /\ call.caller = "load-balancing"
    /\ \E e \in Commits(repo) : e.author = "Intern1"
    /\ \E e \in Commits(repo) : e.author = "Senior2"

\* C4 as stated: when create_repo returns, for any type and any requested
\* file count, nothing is left uncommitted: every file written is contained
\* in some commit.
C4_AsStated ==
    pc = "returned" => (Dirty(repo) = {} /\ AllCommitted(repo))

\* C5 as stated: after a complex synthesis with requested file count F the
\* trunk's working tree holds exactly F files.
C5_AsStated ==
    (pc = "returned" /\ call.type = "complex" /\ call.kw.files.given
        /\ repo.head = Trunk)
        => Cardinality(DOMAIN repo.wt) = call.kw.files.v

\* C6 as stated: create_repo with an unrecognised type fails before any
\* filesystem mutation: no directory is created or initialised, and an
\* existing repository of that name is neither deleted nor modified.
C6_AsStated ==
    pc = "raised" => repo = (IF call.existed THEN OldRepo ELSE NoRepo)

\* C7 as stated: once a version-control command of a synthesis has exited
\* non-zero, create_repo executes no later statement and does not return
\* the repository.
C7_AsStated ==
    (gitFailed /\ pc \in {"running", "returned"})
        => (~carriedOn /\ pc # "returned")

\* C8: when the repository exists and the caller does not answer y/Y to
\* the overwrite prompt, create_repo returns None, the existing repository
\* is exactly as it was, and no version-control command has been run.
C8_DeclineIsNoOp ==
    /\ (pc # "idle" /\ call.existed /\ call.answer \notin {"y", "Y"})
          => pc = "declined"
    /\ pc = "declined"
          => /\ repo = OldRepo
             /\ gitRuns = 0
             /\ todo = <<>>
             /\ after = <<>>

C8_Witness ==
    /\ pc = "declined"
    /\ call.answer = "n"
    /\ call.type = "complex"


\* the (iteration, mode) pairs of n iterations, in the order they are run
ExpectedInvocations(n) ==
    [k \in 1..(Len(Modes) * n) |->
        [iteration |-> ((k - 1) \div Len(Modes)) + 1,
         mode |-> Modes[((k - 1) % Len(Modes)) + 1]]]

\* C9 as stated: when _benchmark_scenario has finished a scenario whose
\* repository was synthesized, with iteration count N, the tool under test
\* has been invoked exactly 2N times, once per (iteration, mode) pair in the
\* order iteration 1 file_level, iteration 1 group_based, iteration 2
\* file_level, ...; no pair was skipped.
C9_AsStated ==
    (bench.pc # "off" /\ bench.analysed /\ repo.git)
        => bench.invoked = ExpectedInvocations(bench.iterations)

\* iterations of the finished scenario in which `mode` was attempted
Attempted(mode) ==
    SelectSeq(bench.iteration_results, LAMBDA it : mode \in DOMAIN it)

\* iterations of the finished scenario in which `mode` was flagged successful
Successful(mode) ==
    SelectSeq(Attempted(mode), LAMBDA it : GetSuccess(it[mode]))

\* C10 as stated: the success rate reported for a (scenario, mode) pair is
\* the number of iterations flagged successful divided by the number of
\* iterations attempted; an iteration that timed out or raised an error
\* counts as attempted and unsuccessful.
C10_AsStated ==
    (bench.pc # "off" /\ bench.analysed)
        => \A mode \in DOMAIN bench.benchmark_results[bench.scenario].modes :
             LET rate == bench.benchmark_results[bench.scenario]
                            .modes[mode].success_rate
             IN rate.num * Len(Attempted(mode))
                    = Len(Successful(mode)) * rate.den

\* the durations of the iterations of the finished scenario in which `mode`
\* ran to an exit: its result carries a duration and is no timeout (an error
\* result carries no duration)
Measured(mode) ==
    LET ran == SelectSeq(bench.iteration_results,
                         LAMBDA it : /\ mode \in DOMAIN it
                                     /\ "duration" \in DOMAIN it[mode]
                                     /\ "timeout" \notin DOMAIN it[mode])
    IN [k \in DOMAIN ran |-> ran[k][mode].duration]

\* C11 as stated: the timing statistics reported for a (scenario, mode) pair
\* are computed only over the iterations that ended neither in a timeout nor
\* in an error: the mean, minimum and maximum reported are those of the
\* durations of the other iterations.
C11_AsStated ==
    (bench.pc # "off" /\ bench.analysed)
        => \A mode \in DOMAIN bench.benchmark_results[bench.scenario].modes :
             LET stats == bench.benchmark_results[bench.scenario].modes[mode]
             IN /\ Measured(mode) # <<>>
                /\ stats.avg_duration.num * Len(Measured(mode))
                       = Sum(Measured(mode)) * stats.avg_duration.den
                /\ stats.min_duration = Min(Measured(mode))
                /\ stats.max_duration = Max(Measured(mode))

\* the durations recorded for `mode` in the iteration results, in order
Recorded(mode) ==
    LET with == SelectSeq(bench.iteration_results,
                          LAMBDA it : /\ mode \in DOMAIN it
                                      /\ "duration" \in DOMAIN it[mode])
    IN [k \in DOMAIN with |-> with[k][mode].duration]

\* n^2 times the sum of the squared deviations from the mean
SquaredDeviations(ds) ==
    LET n == Len(ds)
    IN Sum([k \in DOMAIN ds |->
              (n * ds[k] - Sum(ds)) * (n * ds[k] - Sum(ds))])

\* C12: for the list of durations recorded for a mode (when there is one),
\* _analyze_iteration_results reports their arithmetic mean, their minimum
\* and their maximum, and a standard deviation that is the sample (n-1)
\* standard deviation for two durations or more and 0 for a single one; for
\* [2, 4, 6] that is mean 4, min 2, max 6 and standard deviation 2.
C12_StatsOfDurations ==
    (bench.pc # "off" /\ bench.analysed)
        => \A mode \in Range(Modes) :
             LET ds == Recorded(mode)
                 n == Len(ds)
                 modes == bench.benchmark_results[bench.scenario].modes
             IN IF ds = <<>> THEN mode \notin DOMAIN modes
                ELSE /\ mode \in DOMAIN modes
                     /\ modes[mode].avg_duration.num * n
                            = Sum(ds) * modes[mode].avg_duration.den
                     /\ modes[mode].min_duration \in Range(ds)
                     /\ \A k \in DOMAIN ds : modes[mode].min_duration <= ds[k]
                     /\ modes[mode].max_duration \in Range(ds)
                     /\ \A k \in DOMAIN ds : modes[mode].max_duration >= ds[k]
                     /\ modes[mode].std_deviation.root_of.den > 0
                     /\ n = 1 => modes[mode].std_deviation.root_of.num = 0
                     /\ n > 1 =>
                          modes[mode].std_deviation.root_of.num
                                * (n * n * (n - 1))
                            = SquaredDeviations(ds)
                                * modes[mode].std_deviation.root_of.den
                     /\ ds = <<2, 4, 6>> =>
                          /\ modes[mode].avg_duration.num
                                = 4 * modes[mode].avg_duration.den
                          /\ modes[mode].min_duration = 2
                          /\ modes[mode].max_duration = 6
                          /\ modes[mode].std_deviation.root_of.num
                                = (2 * 2) * modes[mode].std_deviation.root_of.den

C12_Witness ==
    /\ bench.pc # "off"
    /\ bench.analysed
    /\ Recorded("file_level") = <<2, 4, 6>>
    /\ Len(Recorded("group_based")) = 1
    /\ bench.benchmark_results[bench.scenario]
          .modes["file_level"].max_duration = 6

\* the scenarios of the list not yet attempted
NotYetAttempted ==
    IF bench.pc \in {"loop", "modes", "ran"} THEN Tail(bench.queue)
    ELSE bench.queue

\* C13: run_benchmark_suite attempts the scenarios in list order, none left
\* out, also after scenarios that failed (unknown name, synthesis raising,
\* any exception during the iterations); it never stops before the report,
\* and the report is generated exactly once, after every scenario of the
\* list has been attempted.
C13_SuiteReportsOnce ==
    bench.pc # "off" =>
        /\ bench.attempted \o NotYetAttempted = bench.scenarios
        /\ Range(bench.failed) \subseteq Range(bench.attempted)
        /\ bench.reports = (IF bench.pc = "reported" THEN 1 ELSE 0)
        /\ bench.pc = "reported" => bench.attempted = bench.scenarios
        /\ bench.pc # "reported" => ENABLED BenchNext

C13_Witness ==
    /\ bench.pc = "reported"
    /\ bench.reports = 1
    /\ Len(bench.scenarios) = 2
    /\ bench.failed = <<bench.scenarios[1]>>
    /\ bench.scenarios[1] \notin BenchScenarios
    /\ bench.scenarios[2] \in DOMAIN bench.benchmark_results

\* the outcome verify_all_scenarios recorded for a scenario
Verified(repo_name) ==
    /\ verifier.pc # "off"
    /\ \E k \in DOMAIN verifier.verification_results :
          verifier.verification_results[k].scenario = repo_name

OutcomeOf(repo_name) ==
    LET k == CHOOSE k \in DOMAIN verifier.verification_results :
                 verifier.verification_results[k].scenario = repo_name
    IN verifier.verification_results[k]

\* the workloads of a plan object, as a list
Workloads(dir) ==
    LET w == AssigneeWorkload(dir.plan.data)
        RECURSIVE list(_)
        list(as) == IF as = {} THEN <<>>
                    ELSE LET a == CHOOSE a \in as : TRUE
                         IN <<w[a]>> \o list(as \ {a})
    IN list(DOMAIN w)

LoadBalancingDir == verifier.test_repos["load-balancing-test"]

\* C14: with two or more assignees carrying workload, the load-balance
\* check passes exactly when min(workload)/max(workload) > 0.3; a 5/5
\* split passes, a 1/10 split fails.
C14_AsStated ==
    (/\ Verified("load-balancing-test")
     /\ LoadBalancingDir.plan.kind = "dict"
     /\ Len(Workloads(LoadBalancingDir)) >= 2
     /\ Min(Workloads(LoadBalancingDir)) > 0)
    => (OutcomeOf("load-balancing-test").success
          <=> 10 * Min(Workloads(LoadBalancingDir))
                > 3 * Max(Workloads(LoadBalancingDir)))

\* the assignees, the sentinel excluded, that entries of the plan name
NamedAssignees(dir) == DOMAIN AssigneeWorkload(dir.plan.data)

\* those of them that hold at least one file
Carriers(dir) ==
    {a \in NamedAssignees(dir) : AssigneeWorkload(dir.plan.data)[a] > 0}

\* C15 as stated: the load-balance check passes whenever fewer than two
\* distinct assignees carry workload, none included.
C15_AsStated ==
    (/\ Verified("load-balancing-test")
     /\ LoadBalancingDir.plan.kind = "dict"
     /\ Cardinality(Carriers(LoadBalancingDir)) < 2)
    => OutcomeOf("load-balancing-test").success

\* C15, amended: the load-balance check passes when the plan's entries name
\* exactly one assignee, and fails when they name none, for file_level and
\* group_based plans alike.
C15_OneAssigneePasses ==
    (/\ Verified("load-balancing-test")
     /\ LoadBalancingDir.plan.kind = "dict")
    => /\ Cardinality(NamedAssignees(LoadBalancingDir)) = 1
            => OutcomeOf("load-balancing-test").success
       /\ NamedAssignees(LoadBalancingDir) = {}
            => ~OutcomeOf("load-balancing-test").success

C15_Witness ==
    /\ Verified("load-balancing-test")
    /\ LoadBalancingDir.plan.kind = "dict"
    /\ LoadBalancingDir.plan.data.processing_mode = "group_based"
    /\ NamedAssignees(LoadBalancingDir) = {"Bob"}
    /\ Len(LoadBalancingDir.plan.data.groups) = 2
    /\ OutcomeOf("load-balancing-test").success

IgnoreRulesDir == verifier.test_repos["ignore-rules-test"]

\* the ignore-rules check ran to its end on a plan object
IgnoreRulesJudged ==
    /\ Verified("ignore-rules-test")
    /\ IgnoreRulesDir.plan.kind = "dict"
    /\ "details" \in DOMAIN OutcomeOf("ignore-rules-test")

\* a path matches a line of .merge_ignore: "*<ext>" matches a file name
\* ending in <ext>, "<dir>/" a path with the directory component <dir>
Matches(path, pattern) ==
    IF Head(pattern) = "*"
    THEN path[Len(path)] = pattern[2]
    ELSE \E k \in 1..(Len(path) - 1) :
            path[k] = pattern[1] /\ path[k + 1] = "/"

\* the paths of the plan that match a pattern of the ignore-rule file
Offending(dir) ==
    {f \in Range(ProcessedFiles(dir.plan.data)) :
        \E k \in DOMAIN dir.ignore : Matches(f, dir.ignore[k])}

\* C16: given an ignore-rule file, the ignore-rule check fails exactly when
\* some path of the plan matches a pattern listed in that file.
C16_AsStated ==
    (IgnoreRulesJudged /\ IgnoreRulesDir.ignore_file)
    => (~OutcomeOf("ignore-rules-test").success
          <=> Offending(IgnoreRulesDir) # {})

\* the file list the ignore-rules check printed with its failure
FailureDetail == verifier.printed["ignore-rules-test"]

\* C17: whenever the ignore-rule check fails on a plan, the failure detail
\* it reports includes a path that matches an ignored pattern, wherever
\* that path stands in the plan.
C17_AsStated ==
    (/\ IgnoreRulesJudged
     /\ IgnoreRulesDir.ignore_file
     /\ ~OutcomeOf("ignore-rules-test").success)
    => \E k \in DOMAIN FailureDetail : HasIgnored(FailureDetail[k])

\* a plan object the ignore-rules check finds nothing wrong with
CleanPlan(dir) ==
    /\ dir.plan.kind = "dict"
    /\ \A k \in DOMAIN DictGet(dir.plan.data, "files", <<>>) :
          "path" \in DOMAIN dir.plan.data.files[k]
    /\ \A k \in DOMAIN ProcessedFiles(dir.plan.data) :
          ~HasIgnored(ProcessedFiles(dir.plan.data)[k])

MergeConflictsDir == verifier.test_repos["merge-conflicts-test"]

\* the merge-conflicts check reached its structural check on a plan object
\* that declares no processing_mode, with scripts generated
UndeclaredMode ==
    /\ Verified("merge-conflicts-test")
    /\ MergeConflictsDir.plan.kind = "dict"
    /\ "processing_mode" \notin DOMAIN MergeConflictsDir.plan.data
    /\ MergeConflictsDir.scripts_dir
    /\ MergeConflictsDir.scripts > 0

\* C19 as stated: the structural check rejects every plan artifact that
\* declares no processing_mode, whatever other fields it carries.
C19_AsStated ==
    UndeclaredMode => ~OutcomeOf("merge-conflicts-test").success

\* C19, amended: a plan artifact that declares no processing_mode is
\* checked as a group_based one: it is accepted exactly when it carries
\* source_branch, target_branch, timestamp and groups.
C19_UndeclaredModeIsGroupBased ==
    UndeclaredMode =>
        (OutcomeOf("merge-conflicts-test").success
           <=> {"source_branch", "target_branch", "timestamp", "groups"}
                  \subseteq DOMAIN MergeConflictsDir.plan.data)

C19_Witness ==
    /\ UndeclaredMode
    /\ "groups" \in DOMAIN MergeConflictsDir.plan.data
    /\ "files" \notin DOMAIN MergeConflictsDir.plan.data
    /\ OutcomeOf("merge-conflicts-test").success

\* the scenarios verify_all_scenarios has been through whose directory
\* exists, in the order of its list
VisitedExisting ==
    SelectSeq(SubSeq(ScenariosToVerify, 1, verifier.i - 1),
              LAMBDA n : verifier.test_repos[n].exists)

\* C20: verify_all_scenarios never raises and never stops early: it goes
\* through its list in order and records exactly one outcome for each
\* scenario whose directory exists, with success false when the check
\* fails or raises or the plan artifact is missing or malformed.
C20_EveryScenarioRecorded ==
    verifier.pc # "off" =>
        /\ verifier.pc \in {"loop", "returned"}
        /\ verifier.pc = "loop" => ENABLED VerifierNext
        /\ verifier.pc = "returned" =>
              verifier.i = Len(ScenariosToVerify) + 1
        /\ [k \in DOMAIN verifier.verification_results |->
               verifier.verification_results[k].scenario] = VisitedExisting
        /\ \A k \in DOMAIN verifier.verification_results :
              LET outcome == verifier.verification_results[k]
                  dir == verifier.test_repos[outcome.scenario]
                  result == VerifyFunc(outcome.scenario, dir)
              IN outcome.success =>
                    /\ dir.plan.kind = "dict"
                    /\ ~result.raised
                    /\ result.value
                    /\ "error" \notin DOMAIN outcome

C20_Witness ==
    /\ verifier.pc = "returned"
    /\ Len(verifier.verification_results) = 2
    /\ "error" \in DOMAIN verifier.verification_results[1]
    /\ ~verifier.verification_results[1].success
    /\ verifier.verification_results[2].success
    /\ ~verifier.test_repos["file-level-test"].exists

\* C24: the author-identity override is scoped to one commit: between any
\* two steps of a synthesis or scenario setup, and after they finish, the
\* identity configured in the repository is the default identity.
C24_AsStated ==
    (repo.exists /\ repo.git /\ repo.user # "") => repo.user = DefaultUser

\* a complex synthesis that was asked for distinct branches to create has
\* returned
ComplexReturned ==
    /\ pc = "returned"
    /\ call.type = "complex"
    /\ Unique(Requested(call))
    /\ Trunk \notin NamesOf(Requested(call))

\* the commits of a branch that the trunk does not have
OwnCommits(branch) ==
    Range(repo.refs[branch].log) \ Range(repo.refs[Trunk].log)

\* C25: in a complex synthesis every requested branch gets the commits its
\* name selects: two for feature-*, one for hotfix-*, and one (the
\* development scaffolding) for any other name.
C25_AsStated ==
    ComplexReturned =>
        \A k \in DOMAIN Requested(call) :
            LET branch == Requested(call)[k]
            IN /\ Join(branch) \in DOMAIN repo.refs
               /\ Cardinality(OwnCommits(Join(branch))) =
                     (IF StartsWith(branch, "feature", "-") THEN 2 ELSE 1)

\* C26: in a complex synthesis every commit made on the branch at position
\* i of the request list (counted from 0) is attributed to
\* contributors[i mod len(contributors)], also with more branches than
\* contributors.
C26_AuthorByPosition ==
    ComplexReturned =>
        \A k \in DOMAIN Requested(call) :
            \A commit \in OwnCommits(Join(Requested(call)[k])) :
                LET contributors ==
                        Get(call.kw.contributors, ComplexContributors)
                IN commit.author =
                      contributors[((k - 1) % Len(contributors)) + 1]

C26_Witness ==
    /\ ComplexReturned
    /\ call.kw.contributors = Given(<<"Alice">>)
    /\ Len(Requested(call)) = 2
    /\ \A k \in 1..2 :
          /\ OwnCommits(Join(Requested(call)[k])) # {}
          /\ \A commit \in OwnCommits(Join(Requested(call)[k])) :
                commit.author = "Alice"

\* a step of a complex or multi-branch synthesis that creates a branch
CreatesBranch ==
    /\ pc = "running"
    /\ call.type \in {"complex", "multi-branch"}
    /\ Born(repo)
    /\ DOMAIN repo.refs' # DOMAIN repo.refs

\* C27: in complex and multi-branch synthesis every branch is created while
\* the trunk is checked out, starting from the trunk's head, and every
\* branch holds the initial commit.
C27_BranchesFromTrunk ==
    [][/\ CreatesBranch =>
            /\ repo.head = Trunk
            /\ \A b \in DOMAIN repo.refs' \ DOMAIN repo.refs :
                  repo.refs'[b] = repo.refs[Trunk]
       /\ (call.type \in {"complex", "multi-branch"} /\ Trunk \in DOMAIN repo.refs')
            => \A b \in DOMAIN repo.refs' :
                  Head(repo.refs'[b].log) = Head(repo.refs'[Trunk].log)]_vars

C27_Witness ==
    /\ pc = "running"
    /\ call.type = "multi-branch"
    /\ repo.head = Trunk
    /\ "bugfix/performance" \in DOMAIN repo.refs
    /\ "feature-1" \in DOMAIN repo.refs
    /\ Len(repo.refs["bugfix/performance"].log)
          > Len(repo.refs[Trunk].log)

\* C29: scenario setup never commits to the trunk: no statement a scenario
\* runs after create_repo has returned changes the trunk's head.
C29_AsStated ==
    [][(pc = "setup" /\ Trunk \in DOMAIN repo.refs)
          => repo.refs'[Trunk] = repo.refs[Trunk]]_vars

\* C28: whenever the benchmark invokes the tool, the tool's transient
\* directory .merge_work does not exist in the repository, whatever the
\* earlier invocations of the scenario left or how they ended.
C28_CleanBeforeInvocation ==
    [][(bench.pc = "modes" /\ bench'.pc = "ran") => ~repo.work]_vars

C28_Witness ==
    /\ bench.pc = "ran"
    /\ bench.m = 2
    /\ bench.mode_results["file_level"] = TimedOut
    /\ bench.mode_results["group_based"] = Errored

\* C23: as stated: when the tool's main.py cannot be located, a benchmark
\* suite aborts before any scenario runs: the repository is neither deleted
\* nor synthesized and the tool is never invoked.
C23_AsStated ==
    (bench.pc # "off" /\ ~bench.main_py)
        => /\ bench.invoked = <<>>
           /\ bench.attempted = <<>>
           /\ repo \in {NoRepo, OldRepo, [NoRepo EXCEPT !.client = FALSE]}

Deleted ==
    \/ cleanup'.test_repos.items # cleanup.test_repos.items
    \/ cleanup'.logs.items # cleanup.logs.items

\* C22 as stated: without the force flag no cleanup operation removes a
\* repository or a log file unless it asked and the user confirmed, for
\* cleanup_all, cleanup_repos (all or named) and cleanup_logs (all or by
\* age); and an operation whose prompt was declined leaves every file in
\* place.
C22_AsStated ==
    [][(cleanup.pc # "off" /\ ~cleanup.args.force) =>
         /\ Deleted => (cleanup'.asked /\ Confirms(cleanup'.response))
         /\ (cleanup'.asked /\ ~Confirms(cleanup'.response)) =>
               /\ cleanup'.test_repos = cleanup.test_repos
               /\ cleanup'.logs = cleanup.logs
               /\ cleanup'.scenarios = cleanup.scenarios]_vars

\* C30 as stated: the integration suite's process ends with status 0 exactly
\* when every integration test passed, that is, with the overall success
\* state that _generate_report computed from the recorded results.
C30_AsStated ==
    (tester.pc = "exited" /\ tester.main_py) =>
        /\ tester.exit_status = <<0>> <=>
              \A k \in DOMAIN tester.results : tester.results[k].success
        /\ tester.exit_status = <<0>> <=> Truthy(tester.generated)
====
